---- MODULE Spec2Model ----
(***************************************************************************)
(* Keyword extraction, text normalisation, retried provider calls, result  *)
(* formatting, the file cache, the query builder and the analyze pipeline  *)
(* of the novelty assessment CLI.                                          *)
(*                                                                         *)
(* A Python str is a sequence of one-character strings.  Two characters    *)
(* outside ASCII are kept because str.lower() treats them specially:       *)
(* "U+0130" (capital I with dot above) lowercases to the two characters    *)
(* "i" and "U+0307" (combining dot above); the first is alphanumeric, the  *)
(* second is not.                                                          *)
(***************************************************************************)
EXTENDS Naturals, Sequences, FiniteSets, TLC

VARIABLES
    pc,           \* position of the extract_keywords call
    idea_text,    \* argument of extract_keywords: [none, text]
    available,    \* how is_available() ended: "unknown", "yes", "no", "raised"
    probeCalls,   \* requests issued by is_available
    genCalls,     \* calls of generate_completion made by extract_keywords
    attempts,     \* request attempts made inside generate_completion
    attemptLog,   \* per attempt, in order: whether it returned, the text, the cause
    completion,   \* return value of generate_completion
    keywords,     \* raw candidates (parser or fallback output)
    result,       \* return value of extract_keywords
    error,        \* exception that left extract_keywords, "none" if none
    normIn,       \* normaliser input list
    normStage,    \* how many normaliser passes have run
    normOut,      \* output of the first pass
    normAgain,    \* output of the second pass
    client,       \* search client in use: "none", "serp", "brave"
    api_key,      \* whether the client holds a credential
    searchPc,     \* position of the search call
    searchKeywords, \* argument of search
    searchAttempts, \* attempts made by the retried search
    searchLog,    \* outcome of each search attempt, in order
    searchError,  \* exception that left search, "none" if none
    searchResult, \* whether search returned a payload
    fbText,       \* idea text handed to the fallback extractor on its own
    fbCount,      \* self.keyword_count of that extractor
    fbPc,         \* position of the fallback call
    fbOut,        \* what the fallback extractor returned
    provider,     \* result normaliser in use: "none", "patent", "web"
    results,      \* provider response handed to the normaliser
    results_limit, \* configured <provider>.results_limit
    max_length,   \* max_length argument of the formatter
    parsePc,      \* position of the normalise-then-format run
    parseError,   \* exception that left the normaliser, "none" if none
    records,      \* collection the normaliser returned
    formatted,    \* text the formatter returned
    priceEntry,   \* provider entry handed to _extract_price
    pricePc,      \* position of the _extract_price call
    priceOut,     \* what _extract_price returned
    enabled,      \* cache.enabled of the CacheManager
    duration_days, \* cache.duration_days
    cacheFiles,   \* the cache directory: per path, the file written by set()
    now,          \* time.time(), in ticks
    lastSet,      \* per key: the latest completed set() not yet invalidated
    cacheOp,      \* the last CacheManager call: "set", "get", "is_valid", ...
    cacheKey,     \* its key
    cacheOut,     \* what it returned
    cacheError,   \* the exception that left it, "none" if none
    ollama_available, \* PatentAnalyzerCLI.ollama_available, set by the constructor
    cliPc,        \* position of the _extract_keywords call
    cliIdea,      \* its idea_text argument
    cliKeywords,  \* its keywords argument: absent, or a comma-separated string
    extractorLog, \* how each call of KeywordExtractor.extract_keywords it made ended
    cliOut,       \* the list it returned
    cliError,     \* the exception that left it, "none" if none
    analyzePc,    \* position of the analyze call
    output_file,  \* whether analyze was given an output file
    analysis_type, \* its analysis_type argument: "simple" or "complex"
    stages,       \* the stages analyze invoked, in order
    failedStage,  \* the stage that raised, "none" if none
    analysisOut,  \* what analyze returned
    analyzeError, \* the exception that left analyze, "none" if none
    fileWritten,  \* whether the output file was written
    claude_key,   \* api_keys.anthropic: "missing", "empty" or "set"
    claudeAttempts, \* attempts made inside ClaudeClient.generate_analysis
    claudeError,  \* the exception that left generate_analysis, "none" if none
    search_focus, \* brave.search_focus
    queryInput,   \* keywords handed to build_search_params: a str or a list
    queryPc,      \* position of the build_search_params call
    query,        \* the "q" parameter it built
    parserIn,     \* completion handed to the completion parser, None or a str
    parserPc,     \* position of the parser call
    parserOut     \* the candidates it returned

vars == <<pc, idea_text, available, probeCalls, genCalls, attempts, attemptLog,
          completion, keywords, result, error,
          normIn, normStage, normOut, normAgain,
          client, api_key, searchPc, searchKeywords, searchAttempts, searchLog, searchError,
          searchResult,
          fbText, fbCount, fbPc, fbOut,
          provider, results, results_limit, max_length, parsePc, parseError, records,
          formatted, priceEntry, pricePc, priceOut,
          enabled, duration_days, cacheFiles, now, lastSet, cacheOp, cacheKey, cacheOut,
          cacheError,
          ollama_available, cliPc, cliIdea, cliKeywords, extractorLog, cliOut, cliError,
          analyzePc, output_file, analysis_type, stages, failedStage, analysisOut, analyzeError,
          fileWritten, claude_key, claudeAttempts, claudeError,
          search_focus, queryInput, queryPc, query,
          parserIn, parserPc, parserOut>>

extractVars == <<pc, idea_text, available, probeCalls, genCalls, attempts,
                 attemptLog, completion, keywords, result, error>>
normVars == <<normIn, normStage, normOut, normAgain>>
searchVars == <<client, api_key, searchPc, searchKeywords, searchAttempts, searchLog,
                searchError, searchResult>>
fallbackVars == <<fbText, fbCount, fbPc, fbOut>>
recordVars == <<provider, results, results_limit, max_length, parsePc, parseError,
                records, formatted>>
priceVars == <<priceEntry, pricePc, priceOut>>
cacheVars == <<enabled, duration_days, cacheFiles, now, lastSet, cacheOp, cacheKey,
               cacheOut, cacheError>>

cliVars == <<ollama_available, cliPc, cliIdea, cliKeywords, extractorLog, cliOut,
             cliError>>
analyzeVars == <<analyzePc, output_file, analysis_type, stages, failedStage, analysisOut, analyzeError,
                 fileWritten, claude_key, claudeAttempts, claudeError>>
queryVars == <<search_focus, queryInput, queryPc, query>>
parserVars == <<parserIn, parserPc, parserOut>>

\* the variables of the cache, the command line tool, the query builder and
\* the parser on its own
moreVars == <<cacheVars, cliVars, analyzeVars, queryVars, parserVars>>

\* everything the query builder, the parser and the command line tool leave alone
coreVars == <<extractVars, normVars, searchVars, fallbackVars, recordVars, priceVars>>

----------------------------------------------------------------------------
\* Characters and the str methods the code uses.

LowerLetters == <<"a", "b", "c", "d", "e", "f", "g", "h", "i", "j", "k", "l", "m", "n", "o", "p", "q", "r", "s", "t", "u", "v", "w", "x", "y", "z">>
UpperLetters == <<"A", "B", "C", "D", "E", "F", "G", "H", "I", "J", "K", "L", "M", "N", "O", "P", "Q", "R", "S", "T", "U", "V", "W", "X", "Y", "Z">>
DigitChars == {"0", "1", "2", "3", "4", "5", "6", "7", "8", "9"}
IDotAbove == "U+0130"
CombiningDot == "U+0307"

Range(s) == {s[i] : i \in 1..Len(s)}

\* c.isalnum()
isalnum(c) ==
    c \in Range(LowerLetters) \cup Range(UpperLetters) \cup DigitChars \cup {IDotAbove}

\* c.isspace()
isspace(c) == c \in {" ", "\n", "\t"}

\* c.isdigit()
isdigit(c) == c \in DigitChars

\* the regular expression class \w
isword(c) == isalnum(c) \/ c = "_"

\* c.lower() for one character; the result may be longer than one character
lower_char(c) ==
    IF c \in Range(UpperLetters)
    THEN <<LowerLetters[CHOOSE i \in 1..Len(UpperLetters) : UpperLetters[i] = c]>>
    ELSE IF c = IDotAbove THEN <<"i", CombiningDot>>
    ELSE <<c>>

\* s.lower(); the halves keep the evaluation shallow on long text
RECURSIVE lower(_)
lower(s) ==
    IF s = <<>> THEN <<>>
    ELSE IF Len(s) = 1 THEN lower_char(s[1])
    ELSE LET h == Len(s) \div 2
         IN lower(SubSeq(s, 1, h)) \o lower(SubSeq(s, h + 1, Len(s)))

\* s.startswith(p)
startswith(s, p) == Len(p) <= Len(s) /\ SubSeq(s, 1, Len(p)) = p

\* s[n:]
drop(s, n) == SubSeq(s, n + 1, Len(s))

\* the positions at which sub occurs in s
occurrences(s, sub) ==
    {i \in 1..Len(s) : i + Len(sub) - 1 <= Len(s) /\ SubSeq(s, i, i + Len(sub) - 1) = sub}

\* sub in s, for a non-empty sub
contains(s, sub) == occurrences(s, sub) # {}

\* the k-th smallest member of a set of numbers
kth(S, k) == CHOOSE x \in S : Cardinality({y \in S : y < x}) = k - 1

\* for each character of s, whether it is whitespace, a digit, a word character
space_mask(s) == [i \in 1..Len(s) |-> isspace(s[i])]
digit_mask(s) == [i \in 1..Len(s) |-> isdigit(s[i])]
word_mask(s) == [i \in 1..Len(s) |-> isword(s[i])]

\* number of leading TRUE entries of a mask
prefix_len(m) ==
    IF \A i \in 1..Len(m) : m[i] THEN Len(m)
    ELSE (CHOOSE i \in 1..Len(m) : ~m[i] /\ \A j \in 1..(i - 1) : m[j]) - 1

\* number of trailing TRUE entries of a mask
suffix_len(m) ==
    IF \A i \in 1..Len(m) : m[i] THEN Len(m)
    ELSE Len(m) - (CHOOSE i \in 1..Len(m) : ~m[i] /\ \A j \in (i + 1)..Len(m) : m[j])

\* s.strip()
strip(s) ==
    LET m == space_mask(s)
    IN IF \A i \in 1..Len(s) : m[i] THEN <<>>
       ELSE SubSeq(s, prefix_len(m) + 1, Len(s) - suffix_len(m))

\* s.split(sep) for a non-empty separator: always at least one piece.  The
\* separators the code splits on (",", "\n", "Keywords:") cannot overlap
\* themselves, so every occurrence is a cut.
split(s, sep) ==
    LET cuts == occurrences(s, sep)
        m == Cardinality(cuts)
    IN [k \in 1..(m + 1) |->
           SubSeq(s,
                  IF k = 1 THEN 1 ELSE kth(cuts, k - 1) + Len(sep),
                  IF k = m + 1 THEN Len(s) ELSE kth(cuts, k) - 1)]

\* the maximal runs of the characters of s whose mask entry is TRUE, in order
runs(s, m) ==
    LET starts == {i \in 1..Len(s) : m[i] /\ (i = 1 \/ ~m[i - 1])}
        ends == {i \in 1..Len(s) : m[i] /\ (i = Len(s) \/ ~m[i + 1])}
    IN [k \in 1..Cardinality(starts) |-> SubSeq(s, kth(starts, k), kth(ends, k))]

\* s.split(): the maximal runs of non-whitespace characters
split_ws(s) == runs(s, [i \in 1..Len(s) |-> ~isspace(s[i])])

\* sep.join(parts)
RECURSIVE join(_, _)
join(sep, parts) ==
    IF parts = <<>> THEN <<>>
    ELSE IF Len(parts) = 1 THEN parts[1]
    ELSE parts[1] \o sep \o join(sep, Tail(parts))

\* number of leading digits of s (the regular expression \d+)
digit_span(s) == prefix_len(digit_mask(s))

\* number of leading whitespace characters of s (the regular expression \s+)
space_span(s) == prefix_len(space_mask(s))

----------------------------------------------------------------------------
\* Module constants of keyword_extractor.py.

COMMON_WORDS ==
    { <<"a", "n", "d">>, <<"o", "r">>, <<"t", "h", "e">>, <<"a">>, <<"a", "n">>, <<"i", "n">>, <<"o", "n">>, <<"a", "t">>, <<"t", "o">>, <<"f", "o", "r">>,
      <<"w", "i", "t", "h">>, <<"b", "y">>, <<"o", "f">>, <<"i", "s">>, <<"a", "r", "e">>, <<"w", "a", "s">>, <<"w", "e", "r", "e">>, <<"b", "e">>, <<"b", "e", "e", "n">>,
      <<"b", "e", "i", "n", "g">>, <<"h", "a", "v", "e">>, <<"h", "a", "s">>, <<"h", "a", "d">>, <<"d", "o">>, <<"d", "o", "e", "s">>, <<"d", "i", "d">>, <<"w", "i", "l", "l">>,
      <<"w", "o", "u", "l", "d">>, <<"s", "h", "a", "l", "l">>, <<"s", "h", "o", "u", "l", "d">>, <<"m", "a", "y">>, <<"m", "i", "g", "h", "t">>, <<"m", "u", "s", "t">>, <<"c", "a", "n">>,
      <<"c", "o", "u", "l", "d">>, <<"t", "h", "a", "t">>, <<"w", "h", "i", "c", "h">>, <<"w", "h", "o">>, <<"w", "h", "o", "m">>, <<"t", "h", "i", "s">>, <<"t", "h", "e", "s", "e">>,
      <<"t", "h", "o", "s", "e">>, <<"a", "m">>, <<"i">>, <<"y", "o", "u">>, <<"h", "e">>, <<"s", "h", "e">>, <<"i", "t">>, <<"w", "e">>, <<"t", "h", "e", "y">>,
      <<"t", "h", "e", "i", "r">>, <<"o", "u", "r">>, <<"m", "y">>, <<"y", "o", "u", "r">>, <<"i", "t", "s">>, <<"h", "i", "s">>, <<"h", "e", "r">> }

DEFAULT_KEYWORDS ==
    << <<"s", "m", "a", "r", "t">>, <<"d", "e", "v", "i", "c", "e">>, <<"t", "e", "c", "h", "n", "o", "l", "o", "g", "y">>, <<"i", "n", "n", "o", "v", "a", "t", "i", "o", "n">>, <<"s", "y", "s", "t", "e", "m">> >>

\* self.keyword_count
keyword_count == 20

\* candidates of this many characters or more are skipped by the parser
MaxItemLen == 50

prefixes ==
    << <<"H", "e", "r", "e", " ", "a", "r", "e">>, <<"I", "'", "v", "e", " ", "e", "x", "t", "r", "a", "c", "t", "e", "d">>, <<"B", "a", "s", "e", "d", " ", "o", "n">>, <<"T", "h", "e", "s", "e", " ", "a", "r", "e">>,
       <<"T", "h", "e", " ", "f", "o", "l", "l", "o", "w", "i", "n", "g">>, <<"S", "u", "r", "e">>, <<"O", "k", "a", "y">>, <<"A", "l", "r", "i", "g", "h", "t">>, <<"H", "e", "r", "e", " ", "i", "s">>,
       <<"L", "o", "o", "k", "i", "n", "g", " ", "a", "t">> >>

conversational_words ==
    << <<"s", "u", "r", "e">>, <<"o", "k", "a", "y">>, <<"a", "l", "r", "i", "g", "h", "t">>, <<"f", "i", "r", "s", "t">>, <<"n", "e", "x", "t">>, <<"h", "e", "r", "e">>, <<"t", "h", "i", "n", "k">>,
       <<"w", "o", "u", "l", "d">>, <<"c", "o", "u", "l", "d">>, <<"s", "h", "o", "u", "l", "d">>, <<"a", "b", "l", "e">>, <<"p", "l", "e", "a", "s", "e">>, <<"t", "h", "a", "n", "k", "s">> >>

conversational_starters ==
    << <<"s", "u", "r", "e">>, <<"o", "k", "a", "y">>, <<"a", "l", "r", "i", "g", "h", "t">>, <<"f", "i", "r", "s", "t">>, <<"n", "e", "x", "t">> >>

pronoun_starters == << <<"i", " ">>, <<"w", "e", " ">>, <<"y", "o", "u", " ">>, <<"t", "h", "e", "y", " ">> >>

punctuation == Range(<<",", ".", ";", ":", "!", "?", "(", ")", "[", "]", "{", "}", "\"", "'">>)

KeywordsMarker == <<"K", "e", "y", "w", "o", "r", "d", "s", ":">>

startswith_any(s, ps) == \E i \in 1..Len(ps) : startswith(s, ps[i])

----------------------------------------------------------------------------
\* KeywordExtractor._parse_keywords_from_completion

\* text after the last "Keywords:" marker, stripped
after_marker(c) ==
    IF contains(c, KeywordsMarker)
    THEN LET pieces == split(c, KeywordsMarker) IN strip(pieces[Len(pieces)])
    ELSE c

\* one turn of the loop over the conversational prefixes
strip_prefix(c, prefix) ==
    IF startswith(c, prefix)
    THEN LET r == strip(drop(c, Len(prefix)))
         IN IF startswith(r, <<":">>) \/ startswith(r, <<",">>) \/ startswith(r, <<".">>)
            THEN strip(drop(r, 1))
            ELSE r
    ELSE c

RECURSIVE strip_prefixes(_, _)
strip_prefixes(c, i) ==
    IF i > Len(prefixes) THEN c
    ELSE strip_prefixes(strip_prefix(c, prefixes[i]), i + 1)

keep_item(p) == p # <<>> /\ Len(p) < MaxItemLen

\* the comma-separated strategy
comma_split(c) ==
    IF contains(c, <<",">>)
    THEN LET raw == split(c, <<",">>)
             parts == [i \in 1..Len(raw) |-> strip(raw[i])]
         IN SelectSeq(parts, keep_item)
    ELSE <<>>

\* re.match(r"^\d+\.\s+\w+", line)
numbered_match(line) ==
    LET d == digit_span(line)
        r1 == drop(line, d)
    IN /\ d >= 1
       /\ r1 # <<>>
       /\ Head(r1) = "."
       /\ LET r2 == Tail(r1)
              w == space_span(r2)
          IN w >= 1 /\ drop(r2, w) # <<>> /\ isword(Head(drop(r2, w)))

\* re.sub(r"^\d+\.\s+", "", line).strip(), for a line that matched
numbered_item(line) ==
    LET d == digit_span(line)
        w == space_span(drop(line, d + 1))
    IN strip(drop(line, d + 1 + w))

RECURSIVE numbered_scan(_)
numbered_scan(lines) ==
    IF lines = <<>> THEN <<>>
    ELSE LET line == strip(Head(lines))
         IN (IF numbered_match(line) /\ keep_item(numbered_item(line))
             THEN <<numbered_item(line)>>
             ELSE <<>>) \o numbered_scan(Tail(lines))

\* the numbered-list strategy
numbered_list(c) == numbered_scan(split(c, <<"\n">>))

keep_word(word) ==
    /\ Len(word) > 3
    /\ word \notin COMMON_WORDS
    /\ ~startswith_any(word, pronoun_starters)
    /\ Range(word) \cap punctuation = {}
    /\ ~startswith_any(word, conversational_starters)

\* the whitespace word strategy
word_heuristic(c) ==
    LET ws == split_ws(c)
        words == [i \in 1..Len(ws) |-> lower(strip(ws[i]))]
    IN SelectSeq(words, keep_word)

\* faulty variant of keep_candidate: short candidates pass
keep_candidate_any_length(keyword) ==
    /\ \A i \in 1..Len(conversational_words) : lower(keyword) # conversational_words[i]
    /\ ~startswith_any(lower(keyword), conversational_words)

\* the final filter on whatever a strategy produced
keep_candidate(keyword) ==
    /\ \A i \in 1..Len(conversational_words) : lower(keyword) # conversational_words[i]
    /\ Len(keyword) > 2
    /\ ~startswith_any(lower(keyword), conversational_words)

\* faulty variant of the parser: the candidates of all strategies are mixed
_parse_keywords_mixed(text) ==
    IF text = <<>> THEN <<>>
    ELSE LET c == strip_prefixes(after_marker(text), 1)
         IN SelectSeq(comma_split(c) \o numbered_list(c) \o word_heuristic(c),
                      keep_candidate)

_parse_keywords_from_completion(text) ==
    IF text = <<>> THEN <<>>
    ELSE LET c == strip_prefixes(after_marker(text), 1)
             byComma == comma_split(c)
             byNumber == IF byComma = <<>> THEN numbered_list(c) ELSE byComma
             byWord == IF byNumber = <<>> THEN word_heuristic(c) ELSE byNumber
         IN SelectSeq(byWord, keep_candidate)

----------------------------------------------------------------------------
\* KeywordExtractor._extract_keywords_fallback

\* re.findall(r'\b\w+\b', s): the maximal runs of word characters
findall_words(s) == runs(s, word_mask(s))

countable(word) ==
    /\ Len(word) > 3
    /\ word \notin COMMON_WORDS
    /\ \A i \in 1..Len(word) : ~isdigit(word[i])

\* keys of a dict in insertion order
RECURSIVE dict_keys(_, _)
dict_keys(ws, seen) ==
    IF ws = <<>> THEN seen
    ELSE dict_keys(Tail(ws),
                   IF Head(ws) \in Range(seen) THEN seen ELSE Append(seen, Head(ws)))

word_count(ws, w) == Cardinality({i \in 1..Len(ws) : ws[i] = w})

\* sorted(items, key=count, reverse=True): stable, so equal counts keep
\* insertion order
RECURSIVE sorted_by_count(_, _, _)
sorted_by_count(keys, ws, c) ==
    IF c = 0 THEN <<>>
    ELSE LET has_count(w) == word_count(ws, w) = c
         IN SelectSeq(keys, has_count) \o sorted_by_count(keys, ws, c - 1)

take(s, n) == SubSeq(s, 1, IF Len(s) < n THEN Len(s) ELSE n)

\* the counted words of the text, most frequent first
sorted_words(text) ==
    LET words == SelectSeq(findall_words(lower(text)), countable)
    IN sorted_by_count(dict_keys(words, <<>>), words, Len(words))

_extract_keywords_fallback(text) == take(sorted_words(text), keyword_count)

----------------------------------------------------------------------------
\* KeywordExtractor.clean_keywords and validate_keywords

kept_char(c) == isalnum(c) \/ c = "-" \/ isspace(c)

\* ''.join(c for c in keyword if ...)
keep_chars(s) == SelectSeq(s, kept_char)

\* faulty variant of clean_keyword: the keyword is not lowercased
clean_keyword_no_lower(keyword) ==
    join(<<" ">>, split_ws(keep_chars(keyword)))

\* one turn of the cleaning loop: strip punctuation, lowercase, collapse spaces
clean_keyword(keyword) ==
    join(<<" ">>, split_ws(lower(keep_chars(keyword))))

RECURSIVE clean_keywords(_)
clean_keywords(ks) ==
    IF ks = <<>> THEN <<>>
    ELSE (IF clean_keyword(Head(ks)) # <<>> THEN <<clean_keyword(Head(ks))>> ELSE <<>>)
         \o clean_keywords(Tail(ks))

\* shortest keyword validate_keywords keeps
MinKeywordLen == 3

already_filtered(keyword, filtered) ==
    \E i \in 1..Len(filtered) : lower(filtered[i]) = lower(keyword)

\* faulty variant of skip_keyword: duplicates are not skipped
skip_keyword_no_dedup(keyword, filtered) ==
    \/ lower(keyword) \in COMMON_WORDS
    \/ Len(keyword) < MinKeywordLen

\* the three `continue` tests of the validation loop
skip_keyword(keyword, filtered) ==
    \/ lower(keyword) \in COMMON_WORDS
    \/ Len(keyword) < MinKeywordLen
    \/ already_filtered(keyword, filtered)

RECURSIVE validate_loop(_, _)
validate_loop(ks, filtered) ==
    IF ks = <<>> THEN filtered
    ELSE validate_loop(Tail(ks),
                       IF skip_keyword(Head(ks), filtered)
                       THEN filtered
                       ELSE Append(filtered, Head(ks)))

\* faulty variant of validate_keywords: no default keywords are substituted
validate_keywords_no_default(ks) == validate_loop(ks, <<>>)

validate_keywords(ks) ==
    IF ks = <<>> THEN DEFAULT_KEYWORDS
    ELSE LET filtered == validate_loop(ks, <<>>)
         IN IF filtered = <<>> THEN DEFAULT_KEYWORDS ELSE filtered

\* the two calls that end extract_keywords
normalize(ks) == validate_keywords(clean_keywords(ks))

----------------------------------------------------------------------------
\* OllamaClient: the availability probe and the retried completion request.

\* stop_after_attempt(3) on generate_completion
OllamaMaxAttempts == 3

\* tenacity stops retrying once this many attempts were made
stop_after_attempt(n) == n >= OllamaMaxAttempts

\* outcomes of the probe line of is_available: a response with a status, a
\* RequestException of requests.get, or the AttributeError of
\* self.api_url.replace when "ollama.api_url" is not configured (None)
ProbeOutcomes == {"200", "404", "RequestException", "AttributeError"}

\* `except requests.exceptions.RequestException`: what leaves is_available
probe_error(probe) ==
    IF probe \in {"200", "404", "RequestException"} THEN "none" ELSE probe

\* is_available(): status 200 is up; another status or a RequestException is not
probe_up(probe) == probe = "200"

\* a completion that opens with a conversational lead-in
LeadInCompletion == <<"S", "u", "r", "e", ",", " ", "h", "e", "r", "e", " ", "a", "r", "e", " ", "k", "e", "y", "w", "o", "r", "d", "s", ":", " ", "s", "m", "a", "r", "t", ",", " ", "s", "e", "n", "s", "o", "r">>

\* a completion that is a plain comma-separated list
PlainCompletion == <<"A", "I", " ", "t", "r", "a", "n", "s", "l", "a", "t", "i", "o", "n", ",", " ", "d", "o", "g", " ", "c", "o", "l", "l", "a", "r", ",", " ", "b", "a", "r", "k", " ", "r", "e", "c", "o", "g", "n", "i", "t", "i", "o", "n">>

\* a completion that lists more items than keyword_count: 21 of them
LongCompletion ==
    <<"k", "a", "a", ",", " ", "k", "b", "b", ",", " ", "k", "c", "c", ",", " ", "k", "d", "d", ",", " ", "k", "e", "e", ",", " ", "k", "f", "f", ",", " ", "k", "g", "g", ",", " ", "k", "h", "h", ",", " ", "k", "i", "i", ",", " ", "k", "j", "j", ",", " ", "k", "k", "k", ",", " ", "k", "l", "l", ",", " ", "k", "m", "m", ",", " ", "k", "n", "n", ",", " ">>
        \o <<"k", "o", "o", ",", " ", "k", "p", "p", ",", " ", "k", "q", "q", ",", " ", "k", "r", "r", ",", " ", "k", "s", "s", ",", " ", "k", "t", "t", ",", " ", "k", "u", "u">>

\* completions that arrive whole, on one JSON line
WholeCompletions == {LeadInCompletion, PlainCompletion, LongCompletion}

\* response parts a generation service may stream, one per JSON line
Pieces ==
    { <<"s", "m", "a", "r", "t">>, <<",", " ">>, <<"-", "n", "e", "t", "-">>, <<"S", "u", "r", "e">>, <<"t", "h", "e">>, <<"1", ".", " ">>, <<"\n">>,
      <<"K", "e", "y", "w", "o", "r", "d", "s", ":">>, <<"A", "I", ",", " ">>, <<"U+0130", "o", "n">>, <<"D", "o", "g", " ", "c", "o", "l", "l", "a", "r", ",", " ">> }

\* one line of the response text
ObjectLine(p) == [json |-> "object", response |-> p]
NoResponseLine == [json |-> "object_without_response", response |-> <<>>]
InvalidLine == [json |-> "invalid", response |-> <<>>]
ScalarLine == [json |-> "scalar", response |-> <<>>]
BlankLine == [json |-> "blank", response |-> <<>>]

Lines ==
    {ObjectLine(p) : p \in Pieces}
        \cup {NoResponseLine, InvalidLine, ScalarLine, BlankLine}

\* most lines in one response body
MaxLines == 2

Bodies ==
    UNION {[1..n -> Lines] : n \in 0..MaxLines}
        \cup {<<ObjectLine(c)>> : c \in WholeCompletions}

RequestFailed == [kind |-> "RequestException", status |-> 0, lines |-> <<>>]

Responses ==
    {RequestFailed}
        \cup {[kind |-> "response", status |-> 500, lines |-> <<>>]}
        \cup {[kind |-> "response", status |-> 200, lines |-> b] : b \in Bodies}

Raised(e) == [err |-> e, text |-> <<>>]
Returned(t) == [err |-> "none", text |-> t]

\* OllamaClient._handle_response: the loop over the lines of response.text.
\* json.loads fails on an invalid line (JSONDecodeError, turned into
\* APIConnectionError); `'response' in x` fails with TypeError when x is a
\* JSON number, true, false or null, and that error is not caught.
RECURSIVE handle_lines(_, _)
handle_lines(lines, parts) ==
    IF lines = <<>> THEN Returned(parts)
    ELSE LET line == Head(lines)
         IN CASE line.json = "blank" -> handle_lines(Tail(lines), parts)
              [] line.json = "invalid" -> Raised("APIConnectionError")
              [] line.json = "scalar" -> Raised("TypeError")
              [] line.json = "object_without_response" -> handle_lines(Tail(lines), parts)
              [] OTHER -> handle_lines(Tail(lines), parts \o line.response)

_handle_response(response) == handle_lines(response.lines, <<>>)

\* the body of generate_completion: one request and its handling
request_attempt(response) ==
    IF response.kind = "RequestException" THEN Raised("APIConnectionError")
    ELSE IF response.status # 200 THEN Raised("APIConnectionError")
    ELSE _handle_response(response)

\* a response with status 200 whose text _handle_response cannot parse
malformed_payload(response) ==
    /\ response.kind = "response"
    /\ response.status = 200
    /\ _handle_response(response).err # "none"

----------------------------------------------------------------------------
\* KeywordExtractor.extract_keywords

NoIdea == [none |-> TRUE, text |-> <<>>]
Idea(t) == [none |-> FALSE, text |-> t]

Ideas ==
    { NoIdea,
      Idea(<<>>),
      Idea(<<" ">>),
      Idea(<<"a", " ", "a", "n", " ", "t", "h", "e">>),
      Idea(<<"s", "m", "a", "r", "t", " ", "u", "m", "b", "r", "e", "l", "l", "a">>),
      Idea(<<"t", "h", "e", " ", "r", "a", "i", "n", " ", "s", "m", "a", "r", "t", " ", "r", "a", "i", "n">>),
      Idea(<<"S", "e", "n", "s", "o", "r", "-", "2", " ", "f", "o", "r", " ", "U+0130", "s", "t", "a", "n", "b", "u", "l">>),
      Idea(<<"A", "I">>) }

\* faulty variant of falsy: only a missing text is rejected
falsy_none_only(idea) == idea.none

\* `not idea_text`
falsy(idea) == idea.none \/ idea.text = <<>>

\* faulty variant of use_ollama: the fallback branch is never taken
use_ollama_always(up) == TRUE

\* `if self.ollama_client.is_available():`
use_ollama(up) == up

\* the entry of extract_keywords: the input check
extract_keywords ==
    /\ pc = "idle"
    /\ \E idea \in Ideas :
          /\ idea_text' = idea
          /\ IF falsy(idea)
             THEN pc' = "raised" /\ error' = "ValueError"
             ELSE pc' = "probe" /\ error' = "none"
    /\ UNCHANGED <<available, probeCalls, genCalls, attempts, attemptLog,
                   completion, keywords, result>>
    /\ UNCHANGED <<normVars, searchVars>>
    /\ UNCHANGED <<fallbackVars, recordVars, priceVars>>
    /\ UNCHANGED moreVars

\* the probe returns; when the service is down the rest of extract_keywords
\* (fallback, clean, validate) runs to its return
is_available ==
    /\ pc = "probe"
    /\ \E probe \in ProbeOutcomes :
          /\ probeCalls' = probeCalls + 1
          /\ error' = probe_error(probe)
          /\ IF probe_error(probe) # "none"
             THEN /\ available' = "raised"
                  /\ pc' = "raised"
                  /\ UNCHANGED <<genCalls, keywords, result>>
             ELSE /\ available' = IF probe_up(probe) THEN "yes" ELSE "no"
                  /\ IF use_ollama(probe_up(probe))
                     THEN /\ pc' = "generate"
                          /\ genCalls' = genCalls + 1
                          /\ UNCHANGED <<keywords, result>>
                     ELSE /\ keywords' = _extract_keywords_fallback(idea_text.text)
                          /\ result' = normalize(keywords')
                          /\ pc' = "returned"
                          /\ UNCHANGED genCalls
    /\ UNCHANGED <<idea_text, attempts, attemptLog, completion>>
    /\ UNCHANGED <<normVars, searchVars>>
    /\ UNCHANGED <<fallbackVars, recordVars, priceVars>>
    /\ UNCHANGED moreVars

\* one attempt of the retried generate_completion; on success the rest of
\* extract_keywords (parse, clean, validate) runs to its return, and an error
\* that tenacity re-raises leaves extract_keywords, which catches nothing
generate_completion ==
    /\ pc = "generate"
    /\ \E response \in Responses :
          LET out == request_attempt(response)
              n == attempts + 1
          IN /\ attempts' = n
             /\ attemptLog' = Append(attemptLog,
                                     [ok |-> out.err = "none", text |-> out.text,
                                      malformed |-> malformed_payload(response)])
             /\ IF out.err = "none"
                THEN /\ completion' = out.text
                     /\ keywords' = _parse_keywords_from_completion(out.text)
                     /\ result' = normalize(keywords')
                     /\ pc' = "returned"
                     /\ UNCHANGED error
                ELSE /\ IF stop_after_attempt(n)
                        THEN pc' = "raised" /\ error' = out.err
                        ELSE pc' = "generate" /\ UNCHANGED error
                     /\ UNCHANGED <<completion, keywords, result>>
    /\ UNCHANGED <<idea_text, available, probeCalls, genCalls>>
    /\ UNCHANGED <<normVars, searchVars>>
    /\ UNCHANGED <<fallbackVars, recordVars, priceVars>>
    /\ UNCHANGED moreVars

----------------------------------------------------------------------------
\* The normaliser on its own: clean_keywords then validate_keywords, twice.

Candidates ==
    { <<>>, <<"T", "e", "s", "t">>, <<" ", "t", "e", "s", "t", "!">>, <<"T", "h", "e">>, <<"a", "b">>, <<"-", "a", "b", "-">>, <<"t", "e", " ", " ", "s", "t">>, <<"U+0130", "x">>,
      <<"u", "n", "i", "q", "u", "e">> }

\* longest candidate list handed to the normaliser
MaxList == 3

CandidateLists == UNION {[1..n -> Candidates] : n \in 0..MaxList}

normalize_first ==
    /\ normStage = 0
    /\ normOut' = normalize(normIn)
    /\ normStage' = 1
    /\ UNCHANGED <<normIn, normAgain, extractVars, searchVars>>
    /\ UNCHANGED <<fallbackVars, recordVars, priceVars>>
    /\ UNCHANGED moreVars

normalize_again ==
    /\ normStage = 1
    /\ normAgain' = normalize(normOut)
    /\ normStage' = 2
    /\ UNCHANGED <<normIn, normOut, extractVars, searchVars>>
    /\ UNCHANGED <<fallbackVars, recordVars, priceVars>>
    /\ UNCHANGED moreVars

----------------------------------------------------------------------------
\* SerpApiClient.search and BraveSearchClient.search under tenacity's retry.

\* stop_after_attempt(3) on SerpApiClient.search
SerpMaxAttempts == 3

\* stop_after_attempt(3) on BraveSearchClient.search
BraveMaxAttempts == 3

\* the decorator names no retry condition: tenacity retries on any exception
retry_on(e) == TRUE

search_stop(c, n) == n >= (IF c = "serp" THEN SerpMaxAttempts ELSE BraveMaxAttempts)

\* what GoogleSearch(params).get_dict() does
SerpOutcomes == {"results", "error_invalid_api_key", "error_other", "exception"}

\* what requests.get does
BraveOutcomes == {"200", "200_bad_json", "401", "500", "RequestException"}

\* the body of SerpApiClient.search
serp_attempt(key, outcome) ==
    IF ~key THEN "APIAuthenticationError"
    ELSE CASE outcome = "results" -> "none"
           [] outcome = "error_invalid_api_key" -> "APIAuthenticationError"
           [] OTHER -> "APIConnectionError"

\* the body of BraveSearchClient.search
brave_attempt(key, outcome) ==
    IF ~key THEN "APIAuthenticationError"
    ELSE CASE outcome = "200" -> "none"
           [] outcome = "401" -> "APIAuthenticationError"
           [] OTHER -> "APIConnectionError"

KeywordInputs ==
    { <<>>, << <<"s", "m", "a", "r", "t">> >>, << <<"s", "m", "a", "r", "t">>, <<"d", "e", "v", "i", "c", "e">> >>,
      << <<"r", "a", "i", "n">>, <<"u", "m", "b", "r", "e", "l", "l", "a">>, <<"s", "e", "n", "s", "o", "r">> >> }

\* a caller starts a search
search_call ==
    /\ searchPc = "idle"
    /\ \E ks \in KeywordInputs : searchKeywords' = ks
    /\ searchPc' = "running"
    /\ UNCHANGED <<client, api_key, searchAttempts, searchLog, searchError,
                   searchResult>>
    /\ UNCHANGED <<extractVars, normVars>>
    /\ UNCHANGED <<fallbackVars, recordVars, priceVars>>
    /\ UNCHANGED moreVars

\* the retry wrapper around one attempt that ended with exception e ("none"
\* when the attempt returned)
after_attempt(e) ==
    /\ searchAttempts' = searchAttempts + 1
    /\ searchLog' = Append(searchLog, e)
    /\ IF e = "none"
       THEN /\ searchPc' = "returned"
            /\ searchResult' = "payload"
            /\ UNCHANGED searchError
       ELSE /\ IF retry_on(e) /\ ~search_stop(client, searchAttempts + 1)
               THEN searchPc' = "running" /\ UNCHANGED searchError
               ELSE searchPc' = "raised" /\ searchError' = e
            /\ UNCHANGED searchResult
    /\ UNCHANGED <<client, api_key, searchKeywords>>
    /\ UNCHANGED <<extractVars, normVars>>
    /\ UNCHANGED <<fallbackVars, recordVars, priceVars>>
    /\ UNCHANGED moreVars

serp_search ==
    /\ searchPc = "running"
    /\ client = "serp"
    /\ \E outcome \in SerpOutcomes : after_attempt(serp_attempt(api_key, outcome))

brave_search ==
    /\ searchPc = "running"
    /\ client = "brave"
    /\ \E outcome \in BraveOutcomes : after_attempt(brave_attempt(api_key, outcome))

----------------------------------------------------------------------------
\* The fallback extractor on its own, for any keyword_count.

FallbackWords == { <<"r", "a", "i", "n">>, <<"S", "m", "a", "r", "t">>, <<"w", "i", "t", "h">>, <<"x", "1", "y", "z">>, <<"s", "u", "n">>, <<"U+0130", "s", "t", "a", "n", "b", "u", "l">> }

\* most words in a generated idea text
MaxWords == 3

WordLists == UNION {[1..n -> FallbackWords] : n \in 0..MaxWords}

FallbackExample == <<"t", "h", "e", " ", "s", "m", "a", "r", "t", " ", "s", "m", "a", "r", "t", " ", "u", "m", "b", "r", "e", "l", "l", "a", " ", "p", "r", "e", "d", "i", "c", "t", "s", " ", "r", "a", "i", "n", " ", "r", "a", "i", "n", " ", "r", "a", "i", "n">>

FallbackTexts == {join(<<" ">>, ws) : ws \in WordLists} \cup {FallbackExample}

\* largest keyword_count tried
MaxCount == 3

\* _extract_keywords_fallback(fbText) on an extractor whose keyword_count is
\* fbCount
fallback_call ==
    /\ fbPc = "idle"
    /\ fbOut' = take(sorted_words(fbText), fbCount)
    /\ fbPc' = "returned"
    /\ UNCHANGED <<fbText, fbCount>>
    /\ UNCHANGED <<extractVars, normVars, searchVars, recordVars, priceVars>>
    /\ UNCHANGED moreVars

----------------------------------------------------------------------------
\* Provider responses: JSON objects whose keys may be absent, null or strings.

Missing == [kind |-> "missing", text |-> <<>>]
Null == [kind |-> "null", text |-> <<>>]
Str(t) == [kind |-> "str", text |-> t]

\* d.get(key, ""): the default stands in for an absent key only
get(v) == IF v.kind = "missing" THEN Str(<<>>) ELSE v

\* the truth value of a Python value that is None or a str
truthy(v) == v.kind = "str" /\ v.text # <<>>

\* one entry of a provider's result array.  title: "title"; link:
\* "patent_link" (patents) or "url" (web); body: "snippet" or "description";
\* inventor: "inventor"; number: "publication_number"; date: "filing_date" or
\* "age"
Entry(t, l, b, i, n, d) ==
    [title |-> t, link |-> l, body |-> b, inventor |-> i, number |-> n, date |-> d]

NoEntry == Entry(Missing, Missing, Missing, Missing, Missing, Missing)

FullEntry ==
    Entry(Str(<<"A">>), Str(<<"h", "t", "t", "p", ":", "/", "/", "w", "w", "w", ".", "a", ".", "c", "o", "m", "/", "x">>), Str(<<"f", "o", "r", " ", "$", "5", ".", "5", "0", " ", "n", "o", "w">>),
          Str(<<"A", "n", "n", ",", " ", "B", "o", "b">>), Str(<<"U", "S", "1">>), Str(<<"2", "0", "2", "0">>))

BareEntry == Entry(Str(<<"B">>), Str(<<"b", ".", "o", "r", "g">>), Missing, Missing, Missing, Missing)

NoLinkEntry == Entry(Str(<<"A">>), Missing, Str(<<"t", "e", "x", "t">>), Missing, Missing, Missing)

NoTitleEntry == Entry(Str(<<>>), Str(<<"b", ".", "o", "r", "g">>), Missing, Missing, Missing, Str(<<"2", "d">>))

NullBodyEntry == Entry(Str(<<"B">>), Str(<<"b", ".", "o", "r", "g", "/", "y">>), Null, Null, Missing, Missing)

\* a body exactly as long as the short field limit
ShortBodyEntry == Entry(Str(<<"C">>), Str(<<"c", ".", "i", "o">>), Str(<<"t", "e", "x", "t">>), Missing, Missing, Missing)

Entries == {FullEntry, BareEntry, NoLinkEntry, NoTitleEntry, NullBodyEntry, ShortBodyEntry}

\* most entries in a provider's result array
MaxEntries == 3

EntryLists == UNION {[1..n -> Entries] : n \in 0..MaxEntries}

\* a response: the "web" object (web search only) and the results array
\* ("organic_results" or "results"), each absent, null or present
Response(w, r, es) == [web |-> w, results |-> r, entries |-> es]

NoResponse == Response("absent", "absent", <<>>)

ProviderResponses ==
    {Response("object", "list", es) : es \in EntryLists}
        \cup {Response("object", "absent", <<>>), Response("object", "null", <<>>),
              Response("absent", "absent", <<>>), Response("null", "absent", <<>>)}

\* largest results_limit tried
MaxLimit == 2

\* the formatter's default max_length
DefaultMaxLength == 500

\* a short max_length, to see truncation
ShortMaxLength == 4

Parsed(rs) == [err |-> "none", recs |-> rs]
ParseRaised(e) == [err |-> e, recs |-> <<>>]

----------------------------------------------------------------------------
\* PatentSearcher._parse_patent_results

\* the dict built for one entry
patent_record(e) ==
    [title |-> get(e.title),
     link |-> get(e.link),
     snippet |-> get(e.body),
     patent_number |-> get(e.number),
     filing_date |-> get(e.date),
     inventors |-> IF truthy(get(e.inventor)) THEN split(e.inventor.text, <<",", " ">>) ELSE <<>>,
     abstract |-> get(e.body),
     claims |-> <<>>]

\* faulty variant of has_identity: the link is not required
has_identity_title_only(title, link) == truthy(title)

\* `if patent["title"] and patent["link"]`
has_identity(title, link) == truthy(title) /\ truthy(link)

\* `if len(patents) >= limit: break`
limit_reached(n, limit) == n >= limit

\* the loop over organic_results
RECURSIVE patent_loop(_, _, _)
patent_loop(entries, patents, limit) ==
    IF entries = <<>> THEN patents
    ELSE LET patent == patent_record(Head(entries))
             kept == IF has_identity(patent.title, patent.link)
                     THEN Append(patents, patent)
                     ELSE patents
         IN IF limit_reached(Len(kept), limit) THEN kept
            ELSE patent_loop(Tail(entries), kept, limit)

\* results.get("organic_results", []) is falsy when the key is absent, null
\* or an empty list
parse_patent_results(resp, limit) ==
    IF resp.results # "list" \/ resp.entries = <<>> THEN Parsed(<<>>)
    ELSE Parsed(patent_loop(resp.entries, <<>>, limit))

----------------------------------------------------------------------------
\* WebSearcher._parse_web_results and the field extractors it calls

\* WebSearcher._extract_source, for an entry without extra_snippets:
\* `"//" in url` raises TypeError when url is null
_extract_source(e) ==
    IF e.link.kind = "missing" THEN Returned(<<>>)
    ELSE IF e.link.kind = "null" THEN Raised("TypeError")
    ELSE LET url == e.link.text
             d1 == IF contains(url, <<"/", "/">>)
                   THEN drop(url, kth(occurrences(url, <<"/", "/">>), 1) + 1)
                   ELSE url
             d2 == IF startswith(d1, <<"w", "w", "w", ".">>) THEN drop(d1, 4) ELSE d1
             d3 == IF contains(d2, <<"/">>)
                   THEN SubSeq(d2, 1, kth(occurrences(d2, <<"/">>), 1) - 1)
                   ELSE d2
         IN Returned(d3)

\* WebSearcher._extract_publication_date
_extract_publication_date(e) == IF e.date.kind = "missing" THEN Str(<<>>) ELSE e.date

\* for each character of s, whether the price scan steps over it
price_mask(s) == [i \in 1..Len(s) |-> isdigit(s[i]) \/ s[i] = "."]

\* WebSearcher._extract_price: result["description"].lower() raises
\* AttributeError when the description is null
_extract_price_of(e) ==
    IF e.body.kind = "missing" THEN Returned(<<>>)
    ELSE IF e.body.kind = "null" THEN Raised("AttributeError")
    ELSE LET description == lower(e.body.text)
         IN IF contains(description, <<"$">>)
            THEN LET price_start == kth(occurrences(description, <<"$">>), 1)
                     n == prefix_len(price_mask(drop(description, price_start)))
                 IN IF n >= 1
                    THEN Returned(SubSeq(description, price_start, price_start + n))
                    ELSE Returned(<<>>)
            ELSE Returned(<<>>)

\* the dict built for one entry; call it only when neither extractor raises
web_record(e) ==
    [title |-> get(e.title),
     url |-> get(e.link),
     description |-> get(e.body),
     source |-> Str(_extract_source(e).text),
     publication_date |-> _extract_publication_date(e),
     price |-> Str(_extract_price_of(e).text)]

\* the loop over results["web"]["results"]
RECURSIVE web_loop(_, _, _)
web_loop(entries, web_results, limit) ==
    IF entries = <<>> THEN Parsed(web_results)
    ELSE LET e == Head(entries)
         IN IF _extract_source(e).err # "none" THEN ParseRaised(_extract_source(e).err)
            ELSE IF _extract_price_of(e).err # "none"
            THEN ParseRaised(_extract_price_of(e).err)
            ELSE LET web_result == web_record(e)
                     kept == IF has_identity(web_result.title, web_result.url)
                             THEN Append(web_results, web_result)
                             ELSE web_results
                 IN IF limit_reached(Len(kept), limit) THEN Parsed(kept)
                    ELSE web_loop(Tail(entries), kept, limit)

\* results.get("web", {}).get("results"): None.get raises AttributeError when
\* "web" is null
parse_web_results(resp, limit) ==
    IF resp.web = "null" THEN ParseRaised("AttributeError")
    ELSE IF resp.web = "absent" \/ resp.results # "list" \/ resp.entries = <<>>
    THEN Parsed(<<>>)
    ELSE web_loop(resp.entries, <<>>, limit)

----------------------------------------------------------------------------
\* PatentSearcher.format_patent_results and WebSearcher.format_web_results

DecimalDigits == <<"0", "1", "2", "3", "4", "5", "6", "7", "8", "9">>

\* str(n) for a natural number
RECURSIVE str_int(_)
str_int(n) ==
    IF n < 10 THEN <<DecimalDigits[n + 1]>>
    ELSE str_int(n \div 10) \o <<DecimalDigits[(n % 10) + 1]>>

\* faulty variant of truncate: the cut text carries no ellipsis
truncate_no_ellipsis(text, limit) ==
    IF Len(text) > limit THEN SubSeq(text, 1, limit) ELSE text

\* text[:max_length] + "..." for a text longer than max_length
truncate(text, limit) ==
    IF Len(text) > limit THEN SubSeq(text, 1, limit) \o <<".", ".", ".">> ELSE text

\* a labelled line, written only when the field is truthy
optional_line(label, v) == IF truthy(v) THEN label \o v.text \o <<"\n">> ELSE <<>>

\* faulty variant of format_patent: every block carries the label 1
format_patent_same_label(i, patent, limit) ==
    <<"P", "a", "t", "e", "n", "t", " ", "1", ":", " ">> \o patent.title.text \o <<"\n">> \o <<"L", "i", "n", "k", ":", " ">> \o patent.link.text \o <<"\n">>

\* the block of the i-th patent, counting from 1
format_patent(i, patent, limit) ==
    <<"P", "a", "t", "e", "n", "t", " ">> \o str_int(i) \o <<":", " ">> \o patent.title.text \o <<"\n">>
        \o optional_line(<<"P", "a", "t", "e", "n", "t", " ", "N", "u", "m", "b", "e", "r", ":", " ">>, patent.patent_number)
        \o optional_line(<<"F", "i", "l", "i", "n", "g", " ", "D", "a", "t", "e", ":", " ">>, patent.filing_date)
        \o (IF patent.inventors # <<>>
            THEN <<"I", "n", "v", "e", "n", "t", "o", "r", "s", ":", " ">> \o join(<<",", " ">>, patent.inventors) \o <<"\n">>
            ELSE <<>>)
        \o (IF truthy(patent.abstract)
            THEN <<"A", "b", "s", "t", "r", "a", "c", "t", ":", " ">> \o truncate(patent.abstract.text, limit) \o <<"\n">>
            ELSE <<>>)
        \o <<"L", "i", "n", "k", ":", " ">> \o patent.link.text \o <<"\n">>

NoPatentsText == <<"N", "o", " ", "p", "a", "t", "e", "n", "t", "s", " ", "f", "o", "u", "n", "d", ".">>

format_patent_results_of(patents, limit) ==
    IF patents = <<>> THEN NoPatentsText
    ELSE join(<<"\n", "\n">>, [i \in 1..Len(patents) |-> format_patent(i, patents[i], limit)])

\* the block of the i-th web result, counting from 1
format_web(i, r, limit) ==
    <<"P", "r", "o", "d", "u", "c", "t", "/", "S", "e", "r", "v", "i", "c", "e", " ">> \o str_int(i) \o <<":", " ">> \o r.title.text \o <<"\n">>
        \o optional_line(<<"S", "o", "u", "r", "c", "e", ":", " ">>, r.source)
        \o optional_line(<<"D", "a", "t", "e", ":", " ">>, r.publication_date)
        \o optional_line(<<"P", "r", "i", "c", "e", ":", " ">>, r.price)
        \o (IF truthy(r.description)
            THEN <<"D", "e", "s", "c", "r", "i", "p", "t", "i", "o", "n", ":", " ">> \o truncate(r.description.text, limit) \o <<"\n">>
            ELSE <<>>)
        \o <<"U", "R", "L", ":", " ">> \o r.url.text \o <<"\n">>

NoWebText == <<"N", "o", " ", "r", "e", "l", "e", "v", "a", "n", "t", " ", "p", "r", "o", "d", "u", "c", "t", "s", " ", "o", "r", " ", "s", "e", "r", "v", "i", "c", "e", "s", " ", "f", "o", "u", "n", "d", ".">>

format_web_results_of(web_results, limit) ==
    IF web_results = <<>> THEN NoWebText
    ELSE join(<<"\n", "\n">>, [i \in 1..Len(web_results) |-> format_web(i, web_results[i], limit)])

----------------------------------------------------------------------------
\* The normalise-then-format run and the price extractor as steps.

\* the normaliser ends: it returns a collection or an exception leaves it
after_parse(out) ==
    /\ records' = out.recs
    /\ parseError' = out.err
    /\ parsePc' = IF out.err = "none" THEN "parsed" ELSE "raised"
    /\ UNCHANGED <<provider, results, results_limit, max_length, formatted>>
    /\ UNCHANGED <<extractVars, normVars, searchVars, fallbackVars, priceVars>>
    /\ UNCHANGED moreVars

_parse_patent_results ==
    /\ parsePc = "idle"
    /\ provider = "patent"
    /\ after_parse(parse_patent_results(results, results_limit))

_parse_web_results ==
    /\ parsePc = "idle"
    /\ provider = "web"
    /\ after_parse(parse_web_results(results, results_limit))

format_patent_results ==
    /\ parsePc = "parsed"
    /\ provider = "patent"
    /\ \E limit \in {ShortMaxLength, DefaultMaxLength} :
          /\ max_length' = limit
          /\ formatted' = format_patent_results_of(records, limit)
    /\ parsePc' = "formatted"
    /\ UNCHANGED <<provider, results, results_limit, parseError, records>>
    /\ UNCHANGED <<extractVars, normVars, searchVars, fallbackVars, priceVars>>
    /\ UNCHANGED moreVars

format_web_results ==
    /\ parsePc = "parsed"
    /\ provider = "web"
    /\ \E limit \in {ShortMaxLength, DefaultMaxLength} :
          /\ max_length' = limit
          /\ formatted' = format_web_results_of(records, limit)
    /\ parsePc' = "formatted"
    /\ UNCHANGED <<provider, results, results_limit, parseError, records>>
    /\ UNCHANGED <<extractVars, normVars, searchVars, fallbackVars, priceVars>>
    /\ UNCHANGED moreVars

\* characters a generated description is made of
PriceChars == {"$", "1", ".", "a"}

\* longest generated description
MaxDesc == 3

PriceExample == <<"a", "v", "a", "i", "l", "a", "b", "l", "e", " ", "f", "o", "r", " ", "$", "1", "9", ".", "9", "9", " ", "t", "o", "d", "a", "y">>

Descriptions ==
    UNION {[1..n -> PriceChars] : n \in 0..MaxDesc} \cup {PriceExample, <<"A", " ", "$", "5", " ", "o", "r", " ", "$", "6">>}

PriceEntries ==
    {Entry(Str(<<"T">>), Str(<<"u">>), Str(d), Missing, Missing, Missing) : d \in Descriptions}
        \cup {NoEntry, Entry(Str(<<"T">>), Str(<<"u">>), Null, Missing, Missing, Missing)}

_extract_price ==
    /\ pricePc = "idle"
    /\ LET out == _extract_price_of(priceEntry)
       IN /\ priceOut' = out.text
          /\ pricePc' = IF out.err = "none" THEN "returned" ELSE "raised"
    /\ UNCHANGED priceEntry
    /\ UNCHANGED <<extractVars, normVars, searchVars, fallbackVars, recordVars>>
    /\ UNCHANGED moreVars


----------------------------------------------------------------------------
\* CacheManager: one JSON file per key, stamped with the time of the write.

CacheKeys == {"key1", "key2"}

\* the file of a key: the md5 digest of the key names it
_get_cache_path(key) == <<"md5", key, ".json">>

CachePaths == {_get_cache_path(k) : k \in CacheKeys}

\* Python values handed to set(): a str, a list, a tuple, None, and a set
\* (which json cannot serialise)
PyValue(t, xs) == [type |-> t, items |-> xs]
None == PyValue("NoneType", <<>>)
True == PyValue("bool", <<"True">>)
False == PyValue("bool", <<"False">>)

CacheValues ==
    {PyValue("str", <<"a">>), PyValue("list", <<"1", "2">>),
     PyValue("tuple", <<"1", "2">>), PyValue("set", <<"1", "2">>), None}

\* json.dump of a value: the JSON text, or TypeError after the opening part of
\* the file was written; a tuple is written as an array
json_dump(v) ==
    CASE v.type = "str" -> [err |-> "none", json |-> "string", items |-> v.items]
      [] v.type \in {"list", "tuple"} -> [err |-> "none", json |-> "array", items |-> v.items]
      [] v.type = "NoneType" -> [err |-> "none", json |-> "null", items |-> <<>>]
      [] OTHER -> [err |-> "TypeError", json |-> "partial", items |-> <<>>]

\* json.load of a complete file's value: an array is read as a list
json_load(j) ==
    CASE j.json = "string" -> PyValue("str", j.items)
      [] j.json = "array" -> PyValue("list", j.items)
      [] OTHER -> None

NoFile == [exists |-> FALSE, timestamp |-> 0, data |-> json_dump(None)]

\* the clock counts ticks; this many ticks make one day
TicksPerDay == 2

\* the clock stops here
MaxClock == 4

\* `age_days > self.duration_days`
expired(file, clock, days) == (clock - file.timestamp) > days * TicksPerDay

\* the files after invalidate(key): the key's file is removed if it exists
invalidated(files, key) == [files EXCEPT ![_get_cache_path(key)] = NoFile]

\* faulty variant of cache_lookup: an expired entry is still served
cache_lookup_no_expiry(files, key, clock, days) ==
    LET file == files[_get_cache_path(key)]
    IN IF ~file.exists THEN [value |-> None, files |-> files]
       ELSE IF file.data.err # "none"
       THEN [value |-> None, files |-> invalidated(files, key)]
       ELSE [value |-> json_load(file.data), files |-> files]

\* the body of get() on an enabled cache: the value returned and the files left
cache_lookup(files, key, clock, days) ==
    LET file == files[_get_cache_path(key)]
    IN IF ~file.exists THEN [value |-> None, files |-> files]
       ELSE IF file.data.err # "none"
       THEN [value |-> None, files |-> invalidated(files, key)]
       ELSE IF expired(file, clock, days)
       THEN [value |-> None, files |-> invalidated(files, key)]
       ELSE [value |-> json_load(file.data), files |-> files]

\* the body of is_valid() on an enabled cache
valid_entry(files, key, clock, days) ==
    LET file == files[_get_cache_path(key)]
    IN /\ file.exists
       /\ file.data.err = "none"
       /\ ~expired(file, clock, days)

\* no set() has been made for the key, or it was invalidated or cleared
NoSet == [live |-> FALSE, time |-> 0, value |-> None]

\* a cache call ends: what it returned or raised
cache_done(op, key, out, err) ==
    /\ cacheOp' = op
    /\ cacheKey' = key
    /\ cacheOut' = out
    /\ cacheError' = err
    /\ UNCHANGED <<enabled, duration_days>>
    /\ UNCHANGED <<coreVars, cliVars, analyzeVars, queryVars, parserVars>>

\* set(key, value): the file is opened for writing, then json.dump runs
cache_set ==
    /\ cacheOp # "unused"
    /\ \E key \in CacheKeys, value \in CacheValues :
          LET data == json_dump(value)
          IN /\ IF enabled
                THEN /\ cacheFiles' = [cacheFiles EXCEPT ![_get_cache_path(key)] =
                                          [exists |-> TRUE, timestamp |-> now, data |-> data]]
                     /\ lastSet' = IF data.err = "none"
                                   THEN [lastSet EXCEPT ![key] =
                                            [live |-> TRUE, time |-> now, value |-> value]]
                                   ELSE lastSet
                     /\ cache_done("set", key, None, data.err)
                ELSE /\ UNCHANGED <<cacheFiles, lastSet>>
                     /\ cache_done("set", key, None, "none")
    /\ UNCHANGED now

\* get(key)
cache_get ==
    /\ cacheOp # "unused"
    /\ \E key \in CacheKeys :
          LET found == cache_lookup(cacheFiles, key, now, duration_days)
          IN IF enabled
             THEN /\ cacheFiles' = found.files
                  /\ cache_done("get", key, found.value, "none")
             ELSE /\ UNCHANGED cacheFiles
                  /\ cache_done("get", key, None, "none")
    /\ UNCHANGED <<now, lastSet>>

\* is_valid(key)
cache_is_valid ==
    /\ cacheOp # "unused"
    /\ \E key \in CacheKeys :
          cache_done("is_valid", key,
                     IF enabled /\ valid_entry(cacheFiles, key, now, duration_days)
                     THEN True ELSE False,
                     "none")
    /\ UNCHANGED <<now, lastSet, cacheFiles>>

\* invalidate(key)
cache_invalidate ==
    /\ cacheOp # "unused"
    /\ \E key \in CacheKeys :
          /\ IF enabled
             THEN /\ cacheFiles' = invalidated(cacheFiles, key)
                  /\ lastSet' = [lastSet EXCEPT ![key] = NoSet]
             ELSE UNCHANGED <<cacheFiles, lastSet>>
          /\ cache_done("invalidate", key, None, "none")
    /\ UNCHANGED now

\* clear(): every *.json file of the cache directory is removed
cache_clear ==
    /\ cacheOp # "unused"
    /\ IF enabled
       THEN /\ cacheFiles' = [p \in CachePaths |-> NoFile]
            /\ lastSet' = [k \in CacheKeys |-> NoSet]
       ELSE UNCHANGED <<cacheFiles, lastSet>>
    /\ cache_done("clear", cacheKey, None, "none")
    /\ UNCHANGED now

\* time passes between two calls
clock_advance ==
    /\ cacheOp # "unused"
    /\ now < MaxClock
    /\ now' = now + 1
    /\ cacheOp' = "clock"
    /\ UNCHANGED <<cacheFiles, lastSet, cacheKey, cacheOut, cacheError,
                   enabled, duration_days>>
    /\ UNCHANGED <<coreVars, cliVars, analyzeVars, queryVars, parserVars>>

----------------------------------------------------------------------------
\* PatentAnalyzerCLI._extract_keywords and its own fallback.

CliStopWords == { <<"a", "n", "d">>, <<"t", "h", "e">>, <<"t", "h", "a", "t">>, <<"w", "i", "t", "h">>, <<"f", "r", "o", "m">>, <<"t", "h", "i", "s">>, <<"f", "o", "r">> }

\* `words[:5]`
CliMaxWords == 5

\* faulty variant of cli_keep_word: short words are kept
cli_keep_word_any_length(w) == w \notin CliStopWords

\* `len(w) > 3 and w not in {...}`
cli_keep_word(w) == Len(w) > 3 /\ w \notin CliStopWords

\* PatentAnalyzerCLI._extract_keywords_fallback
cli_extract_keywords_fallback(text) ==
    take(SelectSeq(split_ws(lower(text)), cli_keep_word), CliMaxWords)

\* `[k.strip() for k in keywords.split(",")]`
provided_keywords(kw) ==
    LET raw == split(kw, <<",">>) IN [i \in 1..Len(raw) |-> strip(raw[i])]

\* how the call of KeywordExtractor.extract_keywords ends
ExtractorOutcomes == {"returns", "APIConnectionError", "ValueError", "TypeError"}

\* what the extractor returns when it returns
ExtractorKeywords == << <<"s", "m", "a", "r", "t">>, <<"s", "e", "n", "s", "o", "r">> >>

CliExample == <<"S", "m", "a", "r", "t", " ", "u", "m", "b", "r", "e", "l", "l", "a", " ", "t", "h", "a", "t", " ", "p", "r", "e", "d", "i", "c", "t", "s", " ", "r", "a", "i", "n", " ", "f", "r", "o", "m", " ", "c", "l", "o", "u", "d", " ", "s", "e", "n", "s", "o", "r", " ", "d", "a", "t", "a">>

CliIdeas == FallbackTexts \cup {CliExample}

\* the keywords argument: None, an empty string or a comma-separated string
CliKeywordArgs == {Null, Str(<<>>), Str(<<"r", "a", "i", "n", " ", "g", "a", "u", "g", "e", " ", ",", " ", "s", "e", "n", "s", "o", "r">>)}

\* the call ends: the list it returned or the exception that left it
cli_done(out, err) ==
    /\ cliOut' = out
    /\ cliError' = err
    /\ cliPc' = IF err = "none" THEN "returned" ELSE "raised"

_extract_keywords ==
    /\ cliPc = "idle"
    /\ \E idea \in CliIdeas, kw \in CliKeywordArgs, outcome \in ExtractorOutcomes :
          /\ cliIdea' = idea
          /\ cliKeywords' = kw
          /\ IF truthy(kw)
             THEN /\ cli_done(provided_keywords(kw.text), "none")
                  /\ UNCHANGED extractorLog
             ELSE IF ~ollama_available
             THEN /\ cli_done(cli_extract_keywords_fallback(idea), "none")
                  /\ UNCHANGED extractorLog
             ELSE /\ extractorLog' = Append(extractorLog, outcome)
                  /\ CASE outcome = "returns" -> cli_done(ExtractorKeywords, "none")
                       [] outcome = "APIConnectionError"
                            -> cli_done(cli_extract_keywords_fallback(idea), "none")
                       [] OTHER -> cli_done(<<>>, outcome)
    /\ UNCHANGED ollama_available
    /\ UNCHANGED <<coreVars, cacheVars, analyzeVars, queryVars, parserVars>>

----------------------------------------------------------------------------
\* PatentAnalyzerCLI.analyze and ClaudeClient.generate_analysis.

\* `stop=stop_after_attempt(2)` on ClaudeClient.generate_analysis
ClaudeMaxAttempts == 2

AnalysisTexts == { <<"N", "o", "v", "e", "l", "t", "y", " ", "s", "c", "o", "r", "e", ":", " ", "7", "/", "1", "0">>, <<"{", "\"", "s", "c", "o", "r", "e", "\"", ":", " ", "3", "}">> }

FailedText == <<"A", "n", "a", "l", "y", "s", "i", "s", " ", "f", "a", "i", "l", "e", "d", ".">>

\* how one request to the Claude API ends once the client is built: a text,
\* an anthropic.APIError that names the authentication, another
\* anthropic.APIError, or another exception
ClaudeOutcomes ==
    {[kind |-> "text", text |-> t] : t \in AnalysisTexts}
        \cup {[kind |-> k, text |-> <<>>] : k \in {"APIError_authentication", "APIError",
                                                   "Exception"}}

\* `if not self.api_key`
has_api_key(key) == key = "set"

\* one attempt of generate_analysis.  Without a key validate_credentials
\* raises APIAuthenticationError before `import anthropic` has run; the first
\* except clause then evaluates anthropic.APIError while the local name
\* anthropic is unbound, and that UnboundLocalError leaves the try statement.
claude_attempt(key, outcome) ==
    IF ~has_api_key(key) THEN Raised("UnboundLocalError")
    ELSE CASE outcome.kind = "text" -> Returned(outcome.text)
           [] outcome.kind = "APIError_authentication" -> Raised("APIAuthenticationError")
           [] OTHER -> Raised("APIConnectionError")

\* the exception classes of the model that derive from Exception
ExceptionClasses ==
    {"APIConnectionError", "APIAuthenticationError", "InputValidationError", "TypeError",
     "AttributeError", "ValueError", "UnboundLocalError", "OSError"}

\* faulty variant of analyze_catches: only the tool's own errors are caught
analyze_catches_own_errors(e) ==
    e \in {"APIConnectionError", "APIAuthenticationError", "InputValidationError"}

\* `except Exception as e` in analyze
analyze_catches(e) == e \in ExceptionClasses

NoFailure == [stage |-> "none", err |-> "none"]

\* where _get_idea_text finds the idea
IdeaSources == {"argument", "file", "unreadable_file", "none"}

\* an exception leaves analyze
analyze_raises(e) ==
    /\ analyzePc' = "raised"
    /\ analyzeError' = e
    /\ UNCHANGED <<analysisOut, fileWritten>>

\* an exception reaches the try statement of analyze
analysis_failed(e) ==
    IF analyze_catches(e)
    THEN /\ analyzePc' = "returned"
         /\ analysisOut' = FailedText
         /\ UNCHANGED <<analyzeError, fileWritten>>
    ELSE analyze_raises(e)

\* analyze up to the try statement: the idea text and the keywords
analyze ==
    /\ analyzePc = "idle"
    /\ \E source \in IdeaSources, given \in BOOLEAN, outcome \in ExtractorOutcomes,
          out \in BOOLEAN, type \in {"simple", "complex"} :
          /\ output_file' = out
          /\ analysis_type' = type
          /\ IF source = "unreadable_file" THEN analyze_raises("InputValidationError")
             ELSE IF source = "none" THEN analyze_raises("TypeError")
             ELSE IF ~given /\ outcome # "returns" THEN analyze_raises(outcome)
             ELSE /\ analyzePc' = "patent_search"
                  /\ UNCHANGED <<analyzeError, analysisOut, fileWritten>>
    /\ UNCHANGED <<stages, failedStage, claude_key, claudeAttempts, claudeError>>
    /\ UNCHANGED <<coreVars, cacheVars, cliVars, queryVars, parserVars>>

\* a search stage of _perform_analysis ends
search_stage(stage, next, outcome) ==
    /\ stages' = Append(stages, stage)
    /\ IF outcome = "ok"
       THEN /\ analyzePc' = next
            /\ UNCHANGED <<failedStage, analysisOut, analyzeError, fileWritten>>
       ELSE /\ failedStage' = [stage |-> stage, err |-> outcome]
            /\ analysis_failed(outcome)
    /\ UNCHANGED <<output_file, analysis_type, claude_key, claudeAttempts, claudeError>>
    /\ UNCHANGED <<coreVars, cacheVars, cliVars, queryVars, parserVars>>

\* self.patent_searcher.search_patents(keywords)
search_patents ==
    /\ analyzePc = "patent_search"
    /\ \E outcome \in {"ok", "APIConnectionError", "APIAuthenticationError", "TypeError"} :
          search_stage("patent_search", "web_search", outcome)

\* self.web_searcher.search_web(keywords)
search_web ==
    /\ analyzePc = "web_search"
    /\ \E outcome \in {"ok", "APIConnectionError", "APIAuthenticationError",
                       "AttributeError"} :
          search_stage("web_search", "analysis", outcome)

\* one attempt of the retried generate_analysis, reached through
\* generate_simple_analysis or generate_complex_analysis as analysis_type
\* says; after a text the
\* rest of analyze (format, write the output file, return) runs
generate_analysis ==
    /\ analyzePc = "analysis"
    /\ \E outcome \in ClaudeOutcomes, written \in BOOLEAN :
          LET out == claude_attempt(claude_key, outcome)
              n == claudeAttempts + 1
          IN /\ claudeAttempts' = n
             /\ stages' = IF claudeAttempts = 0 THEN Append(stages, "analysis") ELSE stages
             /\ IF out.err = "none"
                THEN /\ UNCHANGED <<claudeError, failedStage>>
                     /\ IF output_file /\ ~written
                        THEN analysis_failed("OSError")
                        ELSE /\ analyzePc' = "returned"
                             /\ analysisOut' = out.text
                             /\ fileWritten' = output_file
                             /\ UNCHANGED analyzeError
                ELSE IF n >= ClaudeMaxAttempts
                THEN /\ claudeError' = out.err
                     /\ failedStage' = [stage |-> "analysis", err |-> out.err]
                     /\ analysis_failed(out.err)
                ELSE UNCHANGED <<claudeError, failedStage, analyzePc, analysisOut,
                                 analyzeError, fileWritten>>
    /\ UNCHANGED <<output_file, analysis_type, claude_key>>
    /\ UNCHANGED <<coreVars, cacheVars, cliVars, queryVars, parserVars>>

----------------------------------------------------------------------------
\* BraveSearchClient.build_search_params

\* `if len(query) > 380`
QueryLimit == 380

\* `if len(keywords) > 5`
QueryKeywords == 5

Modifier == <<" ", "p", "r", "o", "d", "u", "c", "t", " ", "s", "e", "r", "v", "i", "c", "e", " ", "a", "v", "a", "i", "l", "a", "b", "l", "e">>

\* a keyword of 100 characters
LongKeyword == [i \in 1..100 |-> "x"]

KeywordChoices == { <<"a", "b">>, <<"s", "m", "a", "r", "t", " ", "u", "m", "b", "r", "e", "l", "l", "a">>, LongKeyword }

\* longest keyword list handed to the query builder
MaxKeywords == 6

KeywordLists == UNION {[1..n -> KeywordChoices] : n \in 0..MaxKeywords}

\* the keywords argument: a list of keywords or one string
QueryInputs ==
    {[kind |-> "list", text |-> <<>>, items |-> ks] : ks \in KeywordLists}
        \cup {[kind |-> "str", text |-> t, items |-> <<>>] :
                 t \in KeywordChoices
                       \cup {LongKeyword \o LongKeyword \o LongKeyword \o LongKeyword}}

SearchFocuses == {"products_services", "general"}

\* faulty variant of first_keywords: the whole list is used
first_keywords_all(ks) == ks

\* `keywords[:5]` for a list of more than 5
first_keywords(ks) == IF Len(ks) > QueryKeywords THEN SubSeq(ks, 1, QueryKeywords) ELSE ks

\* the "q" parameter
build_query(input, focus) ==
    LET joined == IF input.kind = "list"
                  THEN join(<<",", " ">>, first_keywords(input.items))
                  ELSE input.text
        modified == IF focus = "products_services" THEN joined \o Modifier ELSE joined
    IN IF Len(modified) > QueryLimit THEN SubSeq(modified, 1, QueryLimit) ELSE modified

build_search_params ==
    /\ queryPc = "idle"
    /\ query' = build_query(queryInput, search_focus)
    /\ queryPc' = "built"
    /\ UNCHANGED <<search_focus, queryInput>>
    /\ UNCHANGED <<coreVars, cacheVars, cliVars, analyzeVars, parserVars>>

----------------------------------------------------------------------------
\* The completion parser on its own, for every generated completion.

ParserPieces ==
    { <<"s", "m", "a", "r", "t">>, <<",", " ">>, <<"S", "u", "r", "e">>, <<"1", ".", " ">>, <<"\n">>, <<"o", "k">>, <<" ">>, <<"s", "e", "n", "s", "o", "r">>, <<"F", "i", "r", "s", "t", "l", "y">>,
      <<"K", "e", "y", "w", "o", "r", "d", "s", ":">> }

\* most pieces in a generated completion
MaxPieces == 3

PieceLists == UNION {[1..n -> ParserPieces] : n \in 0..MaxPieces}

RECURSIVE concat(_)
concat(parts) == IF parts = <<>> THEN <<>> ELSE Head(parts) \o concat(Tail(parts))

ParserExamples ==
    { <<"1", ".", " ", "s", "m", "a", "r", "t", " ", "s", "e", "n", "s", "o", "r", "\n", "2", ".", " ", "r", "a", "i", "n", ",", " ", "g", "a", "u", "g", "e">>, <<"s", "m", "a", "r", "t", ",", " ", "o", "k", ",", " ", "F", "i", "r", "s", "t", "l", "y", ",", " ", "S", "U", "R", "E", ",", " ", "s", "e", "n", "s", "o", "r">>,
      <<"2", ".", " ", "F", "i", "r", "s", "t", " ", "a", "i", "d", " ", "k", "i", "t", "\n", "3", ".", " ", "d", "o", "g", " ", "c", "o", "l", "l", "a", "r">>, <<"o", "k", "a", "y", " ", "r", "a", "i", "n", "f", "a", "l", "l", " ", "r", "a", "d", "a", "r", " ", "t", "h", "a", "n", "k", "s">> }

\* the completion argument: None or a string
ParserInputs ==
    {Null} \cup {Str(concat(ps)) : ps \in PieceLists} \cup {Str(t) : t \in ParserExamples}

\* _parse_keywords_from_completion(parserIn); `if not completion: return []`
\* covers None and the empty string
parse_completion ==
    /\ parserPc = "idle"
    /\ parserOut' = IF truthy(parserIn) THEN _parse_keywords_from_completion(parserIn.text)
                    ELSE <<>>
    /\ parserPc' = "returned"
    /\ UNCHANGED parserIn
    /\ UNCHANGED <<coreVars, cacheVars, cliVars, analyzeVars, queryVars>>
----------------------------------------------------------------------------
\* Specifications.

ExtractIdle ==
    /\ pc = "idle"
    /\ idea_text = NoIdea
    /\ available = "unknown"
    /\ probeCalls = 0
    /\ genCalls = 0
    /\ attempts = 0
    /\ attemptLog = <<>>
    /\ completion = <<>>
    /\ keywords = <<>>
    /\ result = <<>>
    /\ error = "none"

NormIdle ==
    /\ normIn = <<>>
    /\ normStage = 0
    /\ normOut = <<>>
    /\ normAgain = <<>>

SearchIdle ==
    /\ client = "none"
    /\ api_key = FALSE
    /\ searchPc = "unused"
    /\ searchAttempts = 0
    /\ searchLog = <<>>
    /\ searchError = "none"
    /\ searchKeywords = <<>>
    /\ searchResult = "none"

FallbackIdle ==
    /\ fbText = <<>>
    /\ fbCount = 0
    /\ fbPc = "unused"
    /\ fbOut = <<>>

RecordIdle ==
    /\ provider = "none"
    /\ results = NoResponse
    /\ results_limit = 0
    /\ max_length = 0
    /\ parsePc = "unused"
    /\ parseError = "none"
    /\ records = <<>>
    /\ formatted = <<>>

PriceIdle ==
    /\ priceEntry = NoEntry
    /\ pricePc = "unused"
    /\ priceOut = <<>>

CacheIdle ==
    /\ enabled = FALSE
    /\ duration_days = 0
    /\ cacheFiles = [p \in CachePaths |-> NoFile]
    /\ now = 0
    /\ lastSet = [k \in CacheKeys |-> NoSet]
    /\ cacheOp = "unused"
    /\ cacheKey = "key1"
    /\ cacheOut = None
    /\ cacheError = "none"

CliIdle ==
    /\ ollama_available = FALSE
    /\ cliPc = "unused"
    /\ cliIdea = <<>>
    /\ cliKeywords = Null
    /\ extractorLog = <<>>
    /\ cliOut = <<>>
    /\ cliError = "none"

AnalyzeIdle ==
    /\ analyzePc = "unused"
    /\ output_file = FALSE
    /\ analysis_type = "simple"
    /\ stages = <<>>
    /\ failedStage = NoFailure
    /\ analysisOut = <<>>
    /\ analyzeError = "none"
    /\ fileWritten = FALSE
    /\ claude_key = "missing"
    /\ claudeAttempts = 0
    /\ claudeError = "none"

QueryIdle ==
    /\ search_focus = "general"
    /\ queryInput = [kind |-> "str", text |-> <<>>, items |-> <<>>]
    /\ queryPc = "unused"
    /\ query = <<>>

ParserIdle ==
    /\ parserIn = Null
    /\ parserPc = "unused"
    /\ parserOut = <<>>

\* the cache, the command line tool, the query builder and the lone parser
\* are not in use
MoreIdle == CacheIdle /\ CliIdle /\ AnalyzeIdle /\ QueryIdle /\ ParserIdle

OthersIdle == FallbackIdle /\ RecordIdle /\ PriceIdle /\ MoreIdle

\* a KeywordExtractor after construction
Init == ExtractIdle /\ NormIdle /\ SearchIdle /\ OthersIdle

Next == extract_keywords \/ is_available \/ generate_completion

Spec == Init /\ [][Next]_vars

\* the normaliser applied to every list of candidates
InitNorm ==
    /\ ExtractIdle
    /\ SearchIdle
    /\ OthersIdle
    /\ normIn \in CandidateLists
    /\ normStage = 0
    /\ normOut = <<>>
    /\ normAgain = <<>>

NextNorm == normalize_first \/ normalize_again

SpecNorm == InitNorm /\ [][NextNorm]_vars

\* a search client after construction, with or without a credential
InitSearch ==
    /\ ExtractIdle
    /\ NormIdle
    /\ OthersIdle
    /\ client \in {"serp", "brave"}
    /\ api_key \in BOOLEAN
    /\ searchPc = "idle"
    /\ searchAttempts = 0
    /\ searchLog = <<>>
    /\ searchError = "none"
    /\ searchKeywords = <<>>
    /\ searchResult = "none"

NextSearch == search_call \/ serp_search \/ brave_search

SpecSearch == InitSearch /\ [][NextSearch]_vars

\* the fallback extractor applied to every generated text, for every count
InitFallback ==
    /\ ExtractIdle
    /\ NormIdle
    /\ SearchIdle
    /\ RecordIdle
    /\ PriceIdle
    /\ MoreIdle
    /\ fbText \in FallbackTexts
    /\ fbCount \in 0..MaxCount
    /\ fbPc = "idle"
    /\ fbOut = <<>>

NextFallback == fallback_call

SpecFallback == InitFallback /\ [][NextFallback]_vars

\* a result normaliser and its formatter, for every response and limit
InitRecords ==
    /\ ExtractIdle
    /\ NormIdle
    /\ SearchIdle
    /\ FallbackIdle
    /\ PriceIdle
    /\ MoreIdle
    /\ provider \in {"patent", "web"}
    /\ results \in ProviderResponses
    /\ results_limit \in 0..MaxLimit
    /\ max_length = 0
    /\ parsePc = "idle"
    /\ parseError = "none"
    /\ records = <<>>
    /\ formatted = <<>>

NextRecords ==
    \/ _parse_patent_results
    \/ _parse_web_results
    \/ format_patent_results
    \/ format_web_results

SpecRecords == InitRecords /\ [][NextRecords]_vars

\* the price extractor applied to every generated entry
InitPrice ==
    /\ ExtractIdle
    /\ NormIdle
    /\ SearchIdle
    /\ FallbackIdle
    /\ RecordIdle
    /\ MoreIdle
    /\ priceEntry \in PriceEntries
    /\ pricePc = "idle"
    /\ priceOut = <<>>

NextPrice == _extract_price

SpecPrice == InitPrice /\ [][NextPrice]_vars


\* a CacheManager after construction over an empty cache directory
InitCache ==
    /\ ExtractIdle
    /\ NormIdle
    /\ SearchIdle
    /\ FallbackIdle
    /\ RecordIdle
    /\ PriceIdle
    /\ CliIdle
    /\ AnalyzeIdle
    /\ QueryIdle
    /\ ParserIdle
    /\ enabled \in BOOLEAN
    /\ duration_days \in {0, 1}
    /\ cacheFiles = [p \in CachePaths |-> NoFile]
    /\ now = 0
    /\ lastSet = [k \in CacheKeys |-> NoSet]
    /\ cacheOp = "idle"
    /\ cacheKey = "key1"
    /\ cacheOut = None
    /\ cacheError = "none"

NextCache ==
    \/ cache_set
    \/ cache_get
    \/ cache_is_valid
    \/ cache_invalidate
    \/ cache_clear
    \/ clock_advance

SpecCache == InitCache /\ [][NextCache]_vars

\* the first six groups of variables are not in use
CoreIdle == ExtractIdle /\ NormIdle /\ SearchIdle /\ FallbackIdle /\ RecordIdle /\ PriceIdle

\* a PatentAnalyzerCLI after construction; the probe of the constructor
\* found the generation service up or down
InitCli ==
    /\ CoreIdle
    /\ CacheIdle
    /\ AnalyzeIdle
    /\ QueryIdle
    /\ ParserIdle
    /\ ollama_available \in BOOLEAN
    /\ cliPc = "idle"
    /\ cliIdea = <<>>
    /\ cliKeywords = Null
    /\ extractorLog = <<>>
    /\ cliOut = <<>>
    /\ cliError = "none"

NextCli == _extract_keywords

SpecCli == InitCli /\ [][NextCli]_vars

\* a PatentAnalyzerCLI about to analyze, with or without a Claude API key
InitAnalyze ==
    /\ CoreIdle
    /\ CacheIdle
    /\ CliIdle
    /\ QueryIdle
    /\ ParserIdle
    /\ analyzePc = "idle"
    /\ output_file = FALSE
    /\ analysis_type = "simple"
    /\ stages = <<>>
    /\ failedStage = NoFailure
    /\ analysisOut = <<>>
    /\ analyzeError = "none"
    /\ fileWritten = FALSE
    /\ claude_key \in {"missing", "empty", "set"}
    /\ claudeAttempts = 0
    /\ claudeError = "none"

NextAnalyze ==
    \/ analyze
    \/ search_patents
    \/ search_web
    \/ generate_analysis

SpecAnalyze == InitAnalyze /\ [][NextAnalyze]_vars

\* the query builder applied to every keyword input, for either focus
InitQuery ==
    /\ CoreIdle
    /\ CacheIdle
    /\ CliIdle
    /\ AnalyzeIdle
    /\ ParserIdle
    /\ search_focus \in SearchFocuses
    /\ queryInput \in QueryInputs
    /\ queryPc = "idle"
    /\ query = <<>>

NextQuery == build_search_params

SpecQuery == InitQuery /\ [][NextQuery]_vars

\* the completion parser applied to every generated completion
InitParser ==
    /\ CoreIdle
    /\ CacheIdle
    /\ CliIdle
    /\ AnalyzeIdle
    /\ QueryIdle
    /\ parserIn \in ParserInputs
    /\ parserPc = "idle"
    /\ parserOut = <<>>

NextParser == parse_completion

SpecParser == InitParser /\ [][NextParser]_vars
----------------------------------------------------------------------------
\* Properties of extract_keywords and generate_completion (under Spec).

EmptyIdea == idea_text.none \/ idea_text.text = <<>>

AllAttemptsFailed == \A i \in 1..Len(attemptLog) : ~attemptLog[i].ok

\* C1: for non-empty idea text extract_keywords returns a non-empty keyword
\* list whatever the generation service does, and the only call that raises
\* is the one with empty or absent idea text.
C1_NonEmptyListUnlessEmptyIdea ==
    /\ pc = "returned" => Len(result) > 0
    /\ pc = "raised" => EmptyIdea

\* C2: when the probe succeeds and the completion call fails on all of its
\* attempts, extract_keywords returns the normalised fallback extraction of the
\* idea text.
C2_ExhaustedRetriesFallBack ==
    (available = "yes" /\ attempts = OllamaMaxAttempts /\ AllAttemptsFailed)
        => /\ pc = "returned"
           /\ result = normalize(_extract_keywords_fallback(idea_text.text))

C5_EmptyIdeaIsInputError ==
    (pc # "idle" /\ EmptyIdea)
        => /\ pc = "raised"
           /\ error = "ValueError"
           /\ probeCalls = 0
           /\ genCalls = 0
           /\ attempts = 0
           /\ result = <<>>

\* C5 witness: the call with the empty string (not the absent text) was refused
C5_Witness ==
    /\ pc = "raised"
    /\ idea_text = Idea(<<>>)
    /\ error = "ValueError"

\* C6: one call of generate_completion makes at most 3 attempts; a success
\* ends the call with that attempt's text (so after two failures the third
\* attempt's text is returned); three failures raise a connection error.
C6_ThreeAttemptsThenConnectionError ==
    /\ attempts <= 3
    /\ \A i \in 1..Len(attemptLog) : attemptLog[i].ok => i = Len(attemptLog)
    /\ (attemptLog # <<>> /\ attemptLog[Len(attemptLog)].ok)
           => (pc = "returned" /\ completion = attemptLog[Len(attemptLog)].text)
    /\ (attempts = 3 /\ AllAttemptsFailed)
           => (pc = "raised" /\ error = "APIConnectionError")

\* C10: every keyword extract_keywords returns is lowercase, made of letters,
\* digits, hyphens and single spaces only, and neither starts nor ends with a
\* hyphen or a space.
KeywordCharsetOk(k) ==
    /\ \A i \in 1..Len(k) : k[i] \in Range(LowerLetters) \cup DigitChars \cup {"-", " "}
    /\ \A i \in 1..(Len(k) - 1) : ~(k[i] = " " /\ k[i + 1] = " ")
    /\ k # <<>>
    /\ k[1] \notin {"-", " "}
    /\ k[Len(k)] \notin {"-", " "}

C10_KeywordCharset ==
    pc = "returned" => \A i \in 1..Len(result) : KeywordCharsetOk(result[i])

\* C11: the list extract_keywords returns never has more entries than
\* keyword_count, whether a completion or the fallback produced it.
C11_AtMostKeywordCount == pc = "returned" => Len(result) <= keyword_count

\* C12: for the completion "Sure, here are keywords: smart, sensor" the lead-in
\* is stripped and the parsed, normalised result is exactly smart, sensor.
C12_LeadInStripped ==
    (pc = "returned" /\ available = "yes" /\ completion = LeadInCompletion)
        => result = << <<"s", "m", "a", "r", "t">>, <<"s", "e", "n", "s", "o", "r">> >>

\* the items of a comma-separated completion, trimmed
PlainParts(c) ==
    LET raw == split(c, <<",">>) IN [i \in 1..Len(raw) |-> strip(raw[i])]

LowerParts(c) == [i \in 1..Len(PlainParts(c)) |-> lower(PlainParts(c)[i])]

\* the completions C13 speaks of: distinct items, each non-empty, shorter than
\* 50 characters, neither a stop word nor a filler word
ClaimedPlain(c) ==
    LET parts == PlainParts(c)
    IN /\ contains(c, <<",">>)
       /\ \A i \in 1..Len(parts) :
             /\ parts[i] # <<>>
             /\ Len(parts[i]) < 50
             /\ lower(parts[i]) \notin COMMON_WORDS
             /\ lower(parts[i]) \notin Range(conversational_words)
       /\ \A i, j \in 1..Len(parts) : i # j => parts[i] # parts[j]

\* C13 as stated: a plain comma-separated completion is returned item by item,
\* trimmed and lowercased, after exactly one call of generate_completion.
C13_PlainListReturned ==
    (pc = "returned" /\ available = "yes" /\ ClaimedPlain(completion))
        => (genCalls = 1 /\ result = LowerParts(completion))

PlainItemChars == Range(LowerLetters) \cup Range(UpperLetters) \cup DigitChars \cup {"-", " "}

\* the narrower completions for which C13 holds: no "Keywords:" marker, no
\* conversational opener, and every item at least 3 characters of letters,
\* digits, hyphens and single spaces, not starting with a filler word, the
\* items distinct whatever their case
StrictPlain(c) ==
    LET parts == PlainParts(c)
    IN /\ ClaimedPlain(c)
       /\ ~contains(c, KeywordsMarker)
       /\ ~startswith_any(strip(c), prefixes)
       /\ \A i \in 1..Len(parts) :
             /\ Len(parts[i]) >= 3
             /\ Range(parts[i]) \subseteq PlainItemChars
             /\ \A k \in 1..(Len(parts[i]) - 1) : ~(parts[i][k] = " " /\ parts[i][k + 1] = " ")
             /\ ~startswith_any(lower(parts[i]), conversational_words)
       /\ \A i, j \in 1..Len(parts) : i # j => lower(parts[i]) # lower(parts[j])

\* C13 amended: a comma-separated completion of such items is returned item by
\* item, trimmed and lowercased, in completion order, after exactly one call of
\* generate_completion.
C13_StrictPlainListReturned ==
    (pc = "returned" /\ available = "yes" /\ StrictPlain(completion))
        => (genCalls = 1 /\ result = LowerParts(completion))

\* C13 witness: the three-item example came back lowercased, in order
C13_Witness ==
    /\ pc = "returned"
    /\ genCalls = 1
    /\ completion = PlainCompletion
    /\ StrictPlain(completion)
    /\ result = << <<"a", "i", " ", "t", "r", "a", "n", "s", "l", "a", "t", "i", "o", "n">>, <<"d", "o", "g", " ", "c", "o", "l", "l", "a", "r">>, <<"b", "a", "r", "k", " ", "r", "e", "c", "o", "g", "n", "i", "t", "i", "o", "n">> >>

----------------------------------------------------------------------------
\* Properties of the retried searches (under SpecSearch).

\* C7: an authentication error in a patent or web search is not retried: the
\* attempt that raised it is the only attempt and the error reaches the caller.
C7_AuthErrorNotRetried ==
    \A i \in 1..Len(searchLog) :
        searchLog[i] = "APIAuthenticationError"
            => /\ i = 1
               /\ searchAttempts = 1
               /\ searchPc = "raised"
               /\ searchError = "APIAuthenticationError"

----------------------------------------------------------------------------
\* Properties of the normaliser (under SpecNorm).

Cleaned == clean_keywords(normIn)

FirstIndex(s, x) == CHOOSE i \in 1..Len(s) : s[i] = x /\ \A j \in 1..(i - 1) : s[j] # x

Acceptable(k) == lower(k) \notin COMMON_WORDS /\ Len(k) >= 3

\* C8: the normalised list has no two entries equal case-insensitively, no
\* entry shorter than 3 characters and no stop word; the cleaned candidates
\* that survive keep the order of their first occurrence, and the defaults
\* stand in only when none survives.
C8_NormalizedListIsClean ==
    normStage >= 1
        => /\ \A i, j \in 1..Len(normOut) : i # j => lower(normOut[i]) # lower(normOut[j])
           /\ \A i \in 1..Len(normOut) : Len(normOut[i]) >= 3
           /\ \A i \in 1..Len(normOut) : lower(normOut[i]) \notin COMMON_WORDS
           /\ IF \E i \in 1..Len(Cleaned) : Acceptable(Cleaned[i])
              THEN /\ Range(normOut) = {Cleaned[i] : i \in {j \in 1..Len(Cleaned) : Acceptable(Cleaned[j])}}
                   /\ \A i, j \in 1..Len(normOut) :
                         i < j => FirstIndex(Cleaned, normOut[i]) < FirstIndex(Cleaned, normOut[j])
              ELSE normOut = DEFAULT_KEYWORDS

\* C8 witness: a list with a repeated candidate, a stop word or a short one,
\* of which two distinct keywords survive
C8_Witness ==
    /\ normStage = 1
    /\ Len(normOut) = 2
    /\ normOut # DEFAULT_KEYWORDS
    /\ Len(Cleaned) = 3
    /\ \E i, j \in 1..Len(Cleaned) : i < j /\ Cleaned[i] = Cleaned[j] /\ Acceptable(Cleaned[i])

\* C9: normalising a normalised list returns it unchanged.
C9_NormalizeIdempotent == normStage = 2 => normAgain = normOut

----------------------------------------------------------------------------
\* Properties of the fallback extractor (under SpecFallback).

\* the tokens of the idea text, each lowercased
FbTokens ==
    LET t == runs(fbText, word_mask(fbText)) IN [i \in 1..Len(t) |-> lower(t[i])]

Qualifies(w) ==
    /\ Len(w) > 3
    /\ w \notin COMMON_WORDS
    /\ \A i \in 1..Len(w) : w[i] \notin DigitChars

FbOccurrences(w) == Cardinality({i \in 1..Len(FbTokens) : FbTokens[i] = w})

\* a comes before b: more occurrences, or as many and an earlier first one
RanksBefore(a, b) ==
    \/ FbOccurrences(a) > FbOccurrences(b)
    \/ /\ FbOccurrences(a) = FbOccurrences(b)
       /\ FirstIndex(FbTokens, a) < FirstIndex(FbTokens, b)

\* C14: the fallback extractor returns at most N lowercased tokens of the idea
\* text, none of length <= 3, a stop word or holding a digit, ordered by
\* descending count with ties broken by first appearance, and leaves out a
\* qualifying token only when N better ones are returned; the example text
\* with N = 3 gives rain, smart, umbrella.
C14_FallbackRanksByFrequency ==
    fbPc = "returned"
        => /\ Len(fbOut) <= fbCount
           /\ \A i \in 1..Len(fbOut) : fbOut[i] \in Range(FbTokens) /\ Qualifies(fbOut[i])
           /\ \A i, j \in 1..Len(fbOut) : i < j => RanksBefore(fbOut[i], fbOut[j])
           /\ \A w \in Range(FbTokens) :
                 (Qualifies(w) /\ w \notin Range(fbOut))
                     => /\ Len(fbOut) = fbCount
                        /\ \A i \in 1..Len(fbOut) : RanksBefore(fbOut[i], w)
           /\ (fbText = FallbackExample /\ fbCount = 3)
                 => fbOut = << <<"r", "a", "i", "n">>, <<"s", "m", "a", "r", "t">>, <<"u", "m", "b", "r", "e", "l", "l", "a">> >>

----------------------------------------------------------------------------
\* Properties of the result normalisers and formatters (under SpecRecords).

Normalised == parsePc \in {"parsed", "formatted"}

\* the link of a record: "link" of a patent, "url" of a web result
RecordLink(r) == IF provider = "patent" THEN r.link ELSE r.url

\* an entry that carries both identity fields
EntryOk(e) == truthy(get(e.title)) /\ truthy(get(e.link))

OkEntries == SelectSeq(results.entries, EntryOk)

RecordIds == [i \in 1..Len(records) |-> <<records[i].title, RecordLink(records[i])>>]

\* C15: every record of a returned collection has a non-empty title and a
\* non-empty link or URL; an entry without one of them is dropped and does not
\* count toward the length of the collection.
C15_RecordsHaveIdentity ==
    Normalised
        => /\ \A i \in 1..Len(records) :
                 truthy(records[i].title) /\ truthy(RecordLink(records[i]))
           /\ \A i \in 1..Len(records) :
                 \E k \in 1..Len(OkEntries) :
                     RecordIds[i] = <<get(OkEntries[k].title), get(OkEntries[k].link)>>
           /\ Len(records) <= Len(OkEntries)

\* C15 witness: an entry without a link was dropped although the limit left
\* room for it, and another entry was kept
C15_Witness ==
    /\ parsePc = "parsed"
    /\ results_limit >= Len(results.entries)
    /\ \E k \in 1..Len(results.entries) : results.entries[k] = NoLinkEntry
    /\ Len(records) >= 1
    /\ Len(records) < Len(results.entries)

\* C16: for every response and every results_limit >= 0 the returned
\* collection has at most results_limit records.
C16_AtMostLimitRecords == Normalised => Len(records) <= results_limit

\* C17: the returned collection is exactly the first results_limit entries
\* that have both identity fields, in provider order; rejected entries do not
\* count toward the limit.
C17_FirstLimitOkEntries ==
    Normalised
        => LET expected == take(OkEntries, results_limit)
           IN RecordIds = [i \in 1..Len(expected) |->
                              <<get(expected[i].title), get(expected[i].link)>>]

\* a response without a results array: the key absent, null or an empty list,
\* or for web search the "web" object absent or null
NoResultsArray ==
    \/ results.results # "list"
    \/ results.entries = <<>>
    \/ provider = "web" /\ results.web # "object"

\* C18: a response without a results array makes the normaliser return an
\* empty collection and never raise.
C18_NoResultsGiveEmpty ==
    (parsePc # "idle" /\ NoResultsArray)
        => (Normalised /\ parseError = "none" /\ records = <<>>)

\* the lines of the formatted text that open a block: the label and a number
LabelPrefix == IF provider = "patent" THEN <<"P", "a", "t", "e", "n", "t", " ">> ELSE <<"P", "r", "o", "d", "u", "c", "t", "/", "S", "e", "r", "v", "i", "c", "e", " ">>

LabelLines ==
    LET opens_block(line) ==
            /\ startswith(line, LabelPrefix)
            /\ Len(line) > Len(LabelPrefix)
            /\ line[Len(LabelPrefix) + 1] \in DigitChars
    IN SelectSeq(split(formatted, <<"\n">>), opens_block)

\* C20: the formatter returns the fixed sentence for an empty collection, and
\* otherwise one block per record, in collection order, labelled 1, 2, ...
C20_OneBlockPerRecord ==
    parsePc = "formatted"
        => IF records = <<>>
           THEN formatted = (IF provider = "patent" THEN NoPatentsText ELSE NoWebText)
           ELSE LabelLines = [i \in 1..Len(records) |->
                                 LabelPrefix \o str_int(i) \o <<":", " ">> \o records[i].title.text]

\* C20 witness: two records were rendered as two blocks
C20_Witness ==
    /\ parsePc = "formatted"
    /\ Len(records) = 2
    /\ Len(LabelLines) = 2
    /\ records[1].title # records[2].title

----------------------------------------------------------------------------
\* Properties of price extraction (under SpecPrice).

\* what the scan rule yields for a description: the first "$" and the run of
\* digits and dots right after it, or nothing
ScannedPrice(d) ==
    IF "$" \notin Range(d) THEN <<>>
    ELSE LET i == CHOOSE k \in 1..Len(d) : d[k] = "$" /\ \A j \in 1..(k - 1) : d[j] # "$"
             numeric(k) == d[k] \in DigitChars \cup {"."}
             ends == {k \in i..Len(d) : (\A j \in (i + 1)..k : numeric(j))
                                           /\ (k = Len(d) \/ ~numeric(k + 1))}
             last == CHOOSE k \in ends : TRUE
         IN IF last > i THEN SubSeq(d, i, last) ELSE <<>>

\* C19: price extraction returns the first "$" with the maximal run of digits
\* and dots after it when that run is non-empty, the empty string otherwise,
\* and never raises, whether the description is a string, missing or null.
C19_PriceScan ==
    pricePc # "idle"
        => /\ pricePc = "returned"
           /\ priceOut = (IF priceEntry.body.kind = "str"
                          THEN ScannedPrice(priceEntry.body.text)
                          ELSE <<>>)


----------------------------------------------------------------------------
\* Properties of field truncation in the formatted text (under SpecRecords).

\* the body field of a record: "abstract" of a patent, "description" of a
\* web result
RecordBody(r) == IF provider = "patent" THEN r.abstract ELSE r.description

BodyLabel == IF provider = "patent" THEN <<"A", "b", "s", "t", "r", "a", "c", "t", ":", " ">> ELSE <<"D", "e", "s", "c", "r", "i", "p", "t", "i", "o", "n", ":", " ">>

\* the lines of the i-th block of the formatted text: a block ends with a
\* line break and two more line breaks separate it from the next
BlockLines(i) == split(split(formatted, <<"\n", "\n", "\n">>)[i], <<"\n">>)

\* the labelled lines of the fields other than the body, in full
FullFieldLines(r) ==
    IF provider = "patent"
    THEN {<<"L", "i", "n", "k", ":", " ">> \o r.link.text}
            \cup (IF truthy(r.patent_number)
                  THEN {<<"P", "a", "t", "e", "n", "t", " ", "N", "u", "m", "b", "e", "r", ":", " ">> \o r.patent_number.text} ELSE {})
            \cup (IF truthy(r.filing_date)
                  THEN {<<"F", "i", "l", "i", "n", "g", " ", "D", "a", "t", "e", ":", " ">> \o r.filing_date.text} ELSE {})
            \cup (IF r.inventors # <<>>
                  THEN {<<"I", "n", "v", "e", "n", "t", "o", "r", "s", ":", " ">> \o join(<<",", " ">>, r.inventors)} ELSE {})
    ELSE {<<"U", "R", "L", ":", " ">> \o r.url.text}
            \cup (IF truthy(r.source) THEN {<<"S", "o", "u", "r", "c", "e", ":", " ">> \o r.source.text} ELSE {})
            \cup (IF truthy(r.publication_date)
                  THEN {<<"D", "a", "t", "e", ":", " ">> \o r.publication_date.text} ELSE {})
            \cup (IF truthy(r.price) THEN {<<"P", "r", "i", "c", "e", ":", " ">> \o r.price.text} ELSE {})

\* C21: in the formatted text a body (abstract or description) longer than
\* max_length appears as its first max_length characters followed by "...",
\* a body of at most max_length characters appears unchanged, and every other
\* field appears in full.
C21_OnlyBodyTruncated ==
    (parsePc = "formatted" /\ records # <<>>)
        => \A i \in 1..Len(records) :
              LET r == records[i]
                  body == RecordBody(r)
                  lines == Range(BlockLines(i))
              IN /\ truthy(body)
                    => IF Len(body.text) > max_length
                       THEN BodyLabel \o SubSeq(body.text, 1, max_length) \o <<".", ".", ".">>
                                \in lines
                       ELSE BodyLabel \o body.text \in lines
                 /\ FullFieldLines(r) \subseteq lines
                 /\ BlockLines(i)[1] = LabelPrefix \o str_int(i) \o <<":", " ">> \o r.title.text

\* C21 witness: one formatted text holds a body that was cut and the limit is
\* the short one; the cut line is in the text
C21_Witness ==
    /\ parsePc = "formatted"
    /\ max_length = ShortMaxLength
    /\ \E i \in 1..Len(records) :
          /\ truthy(RecordBody(records[i]))
          /\ Len(RecordBody(records[i]).text) > max_length
          /\ BodyLabel \o SubSeq(RecordBody(records[i]).text, 1, max_length) \o <<".", ".", ".">>
                \in Range(BlockLines(i))
    /\ \E i \in 1..Len(records) :
          /\ truthy(RecordBody(records[i]))
          /\ Len(RecordBody(records[i]).text) <= max_length

----------------------------------------------------------------------------
\* Properties of the probe and of malformed output (under Spec).

\* C22: the availability probe never raises: it ends with True or False
\* whatever happens to the probe request.
C22_ProbeNeverRaises ==
    probeCalls > 0 => available \in {"yes", "no"}

\* C23: when the generation service answers with output that cannot be parsed,
\* extract_keywords returns the normalised fallback extraction of the idea
\* text; the call does not fail.
C23_MalformedOutputFallsBack ==
    (pc \in {"returned", "raised"} /\ attemptLog # <<>>
        /\ attemptLog[Len(attemptLog)].malformed)
        => /\ pc = "returned"
           /\ result = normalize(_extract_keywords_fallback(idea_text.text))

----------------------------------------------------------------------------
\* Properties of the cache (under SpecCache).

\* the latest completed set() of the key is still there and not too old
LiveSet(key) ==
    /\ lastSet[key].live
    /\ now - lastSet[key].time <= duration_days * TicksPerDay

\* C24: on an enabled cache get(k) returns the value of the latest set(k, v)
\* that was not followed by invalidate(k) or clear() and is at most
\* duration_days old, and None otherwise; is_valid(k) is true in exactly the
\* first case.
C24_GetReturnsLatestSet ==
    enabled
        => /\ cacheOp = "get"
                => cacheOut = (IF LiveSet(cacheKey) THEN lastSet[cacheKey].value ELSE None)
           /\ cacheOp = "is_valid"
                => cacheOut = (IF LiveSet(cacheKey) THEN True ELSE False)

----------------------------------------------------------------------------
\* Properties of PatentAnalyzerCLI._extract_keywords (under SpecCli).

\* the words of the simple fallback: longer than 3 characters, not a stop word
SimpleWord(w) ==
    /\ Len(w) > 3
    /\ w \notin { <<"a", "n", "d">>, <<"t", "h", "e">>, <<"t", "h", "a", "t">>, <<"w", "i", "t", "h">>, <<"f", "r", "o", "m">>, <<"t", "h", "i", "s">>, <<"f", "o", "r">> }

\* out is the simple fallback list of the text: at most 5 of its lowercased
\* words, the first ones that qualify, in text order
SimpleFallbackList(out, text) ==
    LET words == SelectSeq(split_ws(lower(text)), SimpleWord)
    IN /\ Len(out) <= 5
       /\ Len(out) <= Len(words)
       /\ \A i \in 1..Len(out) : SimpleWord(out[i]) /\ out[i] = words[i]
       /\ Len(out) < 5 => Len(out) = Len(words)

\* the extractor was called and raised APIConnectionError
ExtractorFailed ==
    extractorLog # <<>> /\ extractorLog[Len(extractorLog)] = "APIConnectionError"

\* C25 as stated: _extract_keywords never lets an APIConnectionError out; when
\* the extractor raises APIConnectionError, or when the service was unavailable
\* at construction (the extractor is then not called), it returns the simple
\* fallback list of the idea text.
C25_FallbackOnConnectionError ==
    cliPc \in {"returned", "raised"}
        => /\ cliError # "APIConnectionError"
           /\ ~ollama_available => extractorLog = <<>>
           /\ (~ollama_available \/ ExtractorFailed)
                 => (cliPc = "returned" /\ SimpleFallbackList(cliOut, cliIdea))

\* C25 amended: the same for a call without supplied keywords; supplied
\* keywords are returned as given, split at commas and stripped, whether the
\* service is available or not.
C25_FallbackWhenNoKeywordsGiven ==
    cliPc \in {"returned", "raised"}
        => /\ cliError # "APIConnectionError"
           /\ ~ollama_available => extractorLog = <<>>
           /\ (~truthy(cliKeywords) /\ (~ollama_available \/ ExtractorFailed))
                 => (cliPc = "returned" /\ SimpleFallbackList(cliOut, cliIdea))
           /\ truthy(cliKeywords)
                 => LET given == split(cliKeywords.text, <<",">>)
                    IN /\ cliPc = "returned"
                       /\ extractorLog = <<>>
                       /\ cliOut = [i \in 1..Len(given) |-> strip(given[i])]

\* C25 witness: the extractor raised APIConnectionError on a long idea text
\* and the five-word fallback list came back
C25_Witness ==
    /\ cliPc = "returned"
    /\ ollama_available
    /\ ExtractorFailed
    /\ cliIdea = CliExample
    /\ Len(cliOut) = 5

----------------------------------------------------------------------------
\* Properties of the completion parser (under SpecParser).

\* the completion as the strategies see it: after the marker and the openers
Prepared == strip_prefixes(after_marker(parserIn.text), 1)

\* C26: the strategies are tried in a fixed order and the first that yields a
\* candidate wins: every returned candidate comes from comma-splitting when
\* that yields any, else from the numbered-list scan when that yields any,
\* else from the word heuristic; strategies are never mixed.
C26_FirstStrategyWins ==
    (parserPc = "returned" /\ truthy(parserIn))
        => LET byComma == comma_split(Prepared)
               byNumber == numbered_list(Prepared)
               byWord == word_heuristic(Prepared)
               winner == IF byComma # <<>> THEN byComma
                         ELSE IF byNumber # <<>> THEN byNumber
                         ELSE byWord
           IN /\ Range(parserOut) \subseteq Range(winner)
              /\ Len(parserOut) <= Len(winner)

\* C26 witness: comma-splitting and the numbered-list scan both yield
\* candidates, different ones, and the comma candidates were returned
C26_Witness ==
    /\ parserPc = "returned"
    /\ truthy(parserIn)
    /\ comma_split(Prepared) # <<>>
    /\ Range(numbered_list(Prepared)) \ Range(comma_split(Prepared)) # {}
    /\ parserOut # <<>>

\* the conversational filler words
Fillers ==
    { <<"s", "u", "r", "e">>, <<"o", "k", "a", "y">>, <<"a", "l", "r", "i", "g", "h", "t">>, <<"f", "i", "r", "s", "t">>, <<"n", "e", "x", "t">>, <<"h", "e", "r", "e">>, <<"t", "h", "i", "n", "k">>, <<"w", "o", "u", "l", "d">>,
      <<"c", "o", "u", "l", "d">>, <<"s", "h", "o", "u", "l", "d">>, <<"a", "b", "l", "e">>, <<"p", "l", "e", "a", "s", "e">>, <<"t", "h", "a", "n", "k", "s">> }

\* C27: no returned candidate has 2 or fewer characters, none equals or starts
\* with a filler word when lowercased, and an empty or absent completion gives
\* the empty list, never an error.
C27_NoFillerNoShortCandidate ==
    parserPc # "idle"
        => /\ parserPc = "returned"
           /\ \A i \in 1..Len(parserOut) :
                 /\ Len(parserOut[i]) > 2
                 /\ \A f \in Fillers : ~startswith(lower(parserOut[i]), f)
           /\ ~truthy(parserIn) => parserOut = <<>>

\* C27 witness: a short candidate and two filler candidates were dropped from
\* a comma-separated completion and the others were returned
C27_Witness ==
    /\ parserPc = "returned"
    /\ parserIn = Str(<<"s", "m", "a", "r", "t", ",", " ", "o", "k", ",", " ", "F", "i", "r", "s", "t", "l", "y", ",", " ", "S", "U", "R", "E", ",", " ", "s", "e", "n", "s", "o", "r">>)
    /\ parserOut = << <<"s", "m", "a", "r", "t">>, <<"s", "e", "n", "s", "o", "r">> >>

----------------------------------------------------------------------------
\* Properties of analyze and generate_analysis (under SpecAnalyze).

\* C28: generate_analysis called without a configured API key ends with
\* APIAuthenticationError for its caller.
C28_NoKeyGivesAuthenticationError ==
    (claude_key # "set" /\ claudeAttempts > 0 /\ analyzePc # "analysis")
        => claudeError = "APIAuthenticationError"

StageOrder == << "patent_search", "web_search", "analysis" >>

\* C29: analyze invokes its stages in the order patent search, web search,
\* analysis generation, each at most once, and a stage that fails is the last
\* one invoked: analyze then returns "Analysis failed.", raises nothing and
\* writes no output file.
C29_FailedStageStopsPipeline ==
    /\ Len(stages) <= Len(StageOrder)
    /\ \A i \in 1..Len(stages) : stages[i] = StageOrder[i]
    /\ failedStage.stage # "none"
          => /\ stages # <<>>
             /\ stages[Len(stages)] = failedStage.stage
             /\ analyzePc = "returned"
             /\ analysisOut = <<"A", "n", "a", "l", "y", "s", "i", "s", " ", "f", "a", "i", "l", "e", "d", ".">>
             /\ analyzeError = "none"
             /\ ~fileWritten

\* C29 witness: with an output file requested the patent search went through
\* and the web search failed with an error that is not one of the tool's own
C29_Witness ==
    /\ output_file
    /\ stages = << "patent_search", "web_search" >>
    /\ failedStage = [stage |-> "web_search", err |-> "AttributeError"]
    /\ analyzePc = "returned"
    /\ ~fileWritten

----------------------------------------------------------------------------
\* Properties of the query builder (under SpecQuery).

\* the query before the cut, from the first five keywords of a list
FullQuery ==
    LET n == IF Len(queryInput.items) < 5 THEN Len(queryInput.items) ELSE 5
        joined == IF queryInput.kind = "list"
                  THEN join(<<",", " ">>, SubSeq(queryInput.items, 1, n))
                  ELSE queryInput.text
    IN IF search_focus = "products_services"
       THEN joined \o <<" ", "p", "r", "o", "d", "u", "c", "t", " ", "s", "e", "r", "v", "i", "c", "e", " ", "a", "v", "a", "i", "l", "a", "b", "l", "e">>
       ELSE joined

\* C30: the query is at most 380 characters long, and for a list only the
\* first 5 keywords contribute: the query is the text built from them, cut to
\* 380 characters.
C30_QueryBounded ==
    queryPc = "built"
        => /\ Len(query) <= 380
           /\ Len(query) <= Len(FullQuery)
           /\ query = SubSeq(FullQuery, 1, Len(query))
           /\ Len(query) < 380 => query = FullQuery

\* C30 witness: a list of six keywords whose first five alone pass the limit
\* was cut to 380 characters
C30_Witness ==
    /\ queryPc = "built"
    /\ queryInput.kind = "list"
    /\ Len(queryInput.items) = 6
    /\ Len(query) = 380
    /\ Len(FullQuery) > 380
============================================================================
